---------------------------- MODULE Spec2Model ----------------------------
(***************************************************************************)
(* A model of mcp-central: the per-backend stdio transport (StdioClient,   *)
(* src/src/client.ts), the manager that owns the registry of transports    *)
(* (McpManager, src/src/manager.ts) and the tool namespacing functions     *)
(* (src/src/types.ts).                                                     *)
(*                                                                         *)
(* JavaScript runs every event handler and every stretch of code between   *)
(* two awaits to completion, so each handler and each such stretch is one  *)
(* action.  Strings are TLA+ strings; a JSON value the program only stores *)
(* and forwards is named by a string (a payload name) and read through the *)
(* accessors below.                                                        *)
(***************************************************************************)
EXTENDS Integers, Sequences, FiniteSets, TLC

\* ------------------------------------------------------------------ bounds
\* Transports (StdioClient objects) that can be constructed in one behaviour.
MaxT == 2
\* Request ids one transport can issue in one behaviour.
MaxId == 3
\* Requests the direct callers of the transport specification can send.
MaxRaw == 2
\* Direct callers in the transport specification with fairness.
LiveCallers == 1
\* Concurrent callers of the transport API in the transport specification.
MaxCallers == 2
\* Manager.callTool invocations in one behaviour of the manager specification.
MaxCalls == 2
\* Longest backend and tool name drawn for the namespacing specification.
MaxNameLen == 3
\* Longest exposed name handed to parseNamespacedTool on its own.
MaxParseLen == 7
\* Router.handleRequest invocations in one behaviour of the router specification.
MaxRoutes == 1

TIds == 1..MaxT
Ids == 1..MaxId

\* ------------------------------------------------------- types.ts: naming
NAMESPACE_SEPARATOR == "__"

\* String.prototype.lastIndexOf: the last 0-based position of sep in s, or -1.
IndexOfLast(s, sep) ==
  LET hits == {i \in 0..(Len(s) - Len(sep)) : SubSeq(s, i + 1, i + Len(sep)) = sep}
  IN IF hits = {} THEN -1 ELSE CHOOSE i \in hits : \A j \in hits : i >= j

\* String.prototype.indexOf: the first 0-based position of sep in s, or -1.
IndexOf(s, sep) ==
  LET hits == {i \in 0..(Len(s) - Len(sep)) : SubSeq(s, i + 1, i + Len(sep)) = sep}
  IN IF hits = {} THEN -1 ELSE CHOOSE i \in hits : \A j \in hits : i <= j

\* String.prototype.slice(from, to) for 0 <= from <= to <= Len(s).
Slice(s, from, to) == SubSeq(s, from + 1, to)

namespaceTools(mcpName, toolName) == mcpName \o NAMESPACE_SEPARATOR \o toolName

\* The result of parseNamespacedTool: ok = FALSE stands for null.
ParsedNull == [ok |-> FALSE, mcp |-> "", tool |-> ""]

parseNamespacedTool(namespaced) ==
  LET idx == IndexOf(namespaced, NAMESPACE_SEPARATOR)
  IN IF idx = -1
       THEN ParsedNull
       ELSE [ok |-> TRUE,
             mcp |-> Slice(namespaced, 0, idx),
             tool |-> Slice(namespaced, idx + Len(NAMESPACE_SEPARATOR), Len(namespaced))]

\* --------------------------------------------------- JSON values in flight
\* Result payloads a backend can send.  "init" is a well-formed
\* InitializeResult, "cat" is a tools/list result, "ok" and "err" are tool call
\* results (err carries isError = true) and "obj" is an object with none of
\* the members the bridge reads.  "undef" is the value of response.result
\* when the message has no result member.
Payloads == {"init", "cat", "ok", "err", "obj"}

\* A Tool; description "undef" stands for an absent description.
Tool(n, d, s) == [name |-> n, description |-> d, inputSchema |-> s]

\* result.tools of a payload, by name; "undef" when the payload has none.
ToolsOf(pl) == IF pl = "cat" THEN pl ELSE "undef"

\* The Tool[] a stored catalog names ("empty" is the constructor's []).
Catalog(key) ==
  IF key = "cat"
    THEN <<Tool("x", "d", "s1"), Tool("_x", "undef", "s2"), Tool("y", "", "s3")>>
    ELSE <<>>

\* Whether result.serverInfo is present (connect reads serverInfo.name).
HasServerInfo(pl) == pl = "init"

\* Truthiness of result.isError.
IsErrorOf(pl) == pl = "err"

\* What the promise returned by StdioClient.request settles with: resolved
\* with a message that has a result ("result"), an error ("error") or neither
\* ("none"), or rejected ("timeout", "exited"); "notstarted" is the throw of
\* request itself.  id is the id member of the message the promise was
\* resolved with, 0 when it was rejected.
Resp(kind, pl) == [kind |-> kind, pl |-> pl, id |-> 0]
NoResp == Resp("null", "undef")

\* A line read from the child's stdout.  shape "json" is a line JSON.parse
\* accepts; id 0 stands for a message without an id member.
LineMsg(shape, id, kind, pl) == [shape |-> shape, id |-> id, kind |-> kind, pl |-> pl]

\* The parsed message msg as the value a pending promise is resolved with.
RespOf(msg) == [kind |-> msg.kind, pl |-> msg.pl, id |-> msg.id]

\* The results a backend answers a method with: the well-formed one and one
\* that lacks what the caller reads (for tools/call both are forwarded as
\* they are, with and without isError).
ResultsFor(method) ==
  CASE method = "initialize" -> {"init", "obj"}
    [] method = "tools/list" -> {"cat", "obj"}
    [] OTHER -> {"ok", "err"}

\* A line written to the child's stdin; id 0 stands for a notification.
OutLine(id, method) == [id |-> id, method |-> method]

\* The outcome of an async function: returned val, or threw val.
Outcome(st, val) == [st |-> st, val |-> val]
NoOutcome == Outcome("none", "undef")

\* A JSON value of a request parameter, by its JavaScript type; val is its
\* text.
JVal(type, val) == [type |-> type, val |-> val]
JUndef == JVal("undefined", "")
JNull == JVal("null", "null")
JStr(v) == JVal("string", v)

\* JavaScript truthiness of a parameter value.
Truthy(v) ==
  CASE v.type \in {"undefined", "null"} -> FALSE
    [] v.type = "string" -> v.val # ""
    [] v.type = "number" -> v.val # "0"
    [] OTHER -> TRUE

\* A JsonRpcRequest handed to the Router: id "undef" is an absent id, params
\* tells whether the params member is there, name and args are params.name
\* and params.arguments.
Request(id, method, params, name, args) ==
  [id |-> id, method |-> method, params |-> params, name |-> name, args |-> args]
NoRequest == Request("undef", "", FALSE, JUndef, JUndef)

\* A JsonRpcResponse made by the Router: kind "result" or "error"; result
\* names the result value, and tools is its tools member (tools/list only).
Response(id, kind, code, message, result, tools) ==
  [id |-> id, kind |-> kind, code |-> code, message |-> message,
   result |-> result, tools |-> tools]
NoResponse == Response("undef", "none", 0, "", "undef", <<>>)


\* -------------------------------------------------------------------- state
VARIABLES
  tr,         \* tr[t]: the fields of the t-th StdioClient constructed
  nT,         \* how many StdioClient objects have been constructed
  settledBy,  \* settledBy[t][id]: the triggers that called resolve or reject of request id
  task,       \* task[k]: an async call in progress (its position and what it awaits)
  clients,    \* McpManager.clients, in insertion order: <<[name, t], ...>>
  usage,      \* the entries handed to logToolCall, in order
  reported,   \* the names connectAll reported as failed (console.error), in order
  crashed,    \* the bridge's own process died of an unhandled 'error' event
  cfg,        \* config.servers: <<[name, enabled], ...>>
  ns          \* the namespacing specification's input and results

vars == <<tr, nT, settledBy, task, clients, usage, reported, crashed, cfg, ns>>

\* ------------------------------------------------------ client.ts: fields
\* The fields of a StdioClient after its constructor (client.ts 19-30), with
\* the child process the object will own: child is "none" before spawn, "run"
\* while the process lives, "dead" once its 'exit' event was delivered and
\* "failed" when the spawn failed asynchronously ('error' event to come).
\* killed records that kill() was called on it.  out is what was written to
\* the child's stdin.
NewClient(name) ==
  [name |-> name, process |-> "null", child |-> "none", killed |-> FALSE,
   pending |-> {}, nextId |-> 1, serverInfo |-> "null", tools |-> "empty",
   out |-> <<>>]

\* A task: kind is "raw" (a direct caller of one StdioClient method),
\* "connectAll" or "call" (Manager.callTool).  pc is "idle", "await" (suspended
\* on the promise of request id of transport t), "ready" (that promise has
\* settled with resp; the continuation has not run yet), "loop" (connectAll
\* between two configs) or "done" (finished with res).  A task of kind
\* "route" is a Router.handleRequest: req is its request, rsp the response it
\* returned and mgr the Manager method it invoked.  A task of kind "line" is
\* the stdio frontend's handler of one input line: line is the shape of the
\* line, outl the lines it wrote to stdout, and its pc is "end" once the
\* handler has finished.  A task of kind "close" is the frontend's handler of
\* the end of its input.
NewTask(kind) ==
  [kind |-> kind, pc |-> "idle", op |-> "none", t |-> 0, id |-> 0,
   resp |-> NoResp, res |-> NoOutcome, i |-> 0, name |-> "", args |-> "",
   deleg |-> FALSE, req |-> NoRequest, rsp |-> NoResponse, mgr |-> "none",
   line |-> "none", outl |-> <<>>]

\* ------------------------------------------ client.ts: request and notify
\* request without its guard.
RequestCanSendAlways(c) == TRUE

\* request, line 67: the guard `this.process?.stdin`.
RequestCanSend(c) == c.process # "null"

\* request, lines 71-83: take the next id, add the pending entry, write.
RequestSend(c, method) ==
  [c EXCEPT !.pending = @ \cup {c.nextId},
            !.nextId = @ + 1,
            !.out = Append(@, OutLine(c.nextId, method))]

\* notify if it took an id from the counter as request does.
NotifyWithId(c, method) ==
  IF c.process = "null" THEN c
  ELSE [c EXCEPT !.nextId = @ + 1, !.out = Append(@, OutLine(c.nextId, method))]

\* notify, lines 95-105: written without an id, dropped when there is no process.
Notify(c, method) ==
  IF c.process = "null" THEN c ELSE [c EXCEPT !.out = Append(@, OutLine(0, method))]

\* resolve(...) or reject(...) of the requests ids of transport t: the task
\* suspended on each is made ready with resp.  A promise settles once: a call
\* for a request whose task is no longer suspended on it changes no task.
SettleTasks(tk, t, ids, resp) ==
  [k \in DOMAIN tk |->
     IF tk[k].pc = "await" /\ tk[k].t = t /\ tk[k].id \in ids
       THEN [tk[k] EXCEPT !.pc = "ready", !.resp = resp]
       ELSE tk[k]]

NoteSettled(sb, t, ids, trigger) ==
  [sb EXCEPT ![t] = [i \in Ids |-> IF i \in ids THEN Append(@[i], trigger) ELSE @[i]]]

\* ------------------------------------------- client.ts: the three triggers
\* The line handler if it completed the oldest pending request whatever the
\* id of the message.
LineHitsOldest(c, msg) ==
  IF msg.shape = "json" /\ msg.id # 0 /\ c.pending # {}
    THEN {CHOOSE i \in c.pending : \A j \in c.pending : i <= j}
    ELSE {}

\* The line handler, lines 40-55: the ids whose entry the line settles.
LineHits(c, msg) ==
  IF msg.shape = "json" /\ msg.id # 0 /\ msg.id \in c.pending THEN {msg.id} ELSE {}

\* The timer callback without its `this.pending.has(id)` test.
TimeoutHitsUnchecked(c, id) == {id}

\* The timer callback if it never rejected.
TimeoutHitsNever(c, id) == {}

\* The timer callback, lines 86-91: the ids whose entry the timer of id settles.
TimeoutHits(c, id) == IF id \in c.pending THEN {id} ELSE {}

\* The exit handler if its loop stopped after the first entry.
ExitRejectsFirst(c) == IF c.pending = {} THEN {} ELSE {CHOOSE i \in c.pending : \A j \in c.pending : i <= j}

\* The exit handler without its `this.pending.clear()`.
ExitKeeps(c) == c.pending

\* The exit handler, lines 57-63: the ids it rejects, and the table it leaves.
ExitRejects(c) == c.pending
ExitLeaves(c) == {}

\* The method of the request that was written with id.
MethodOf(c, id) ==
  LET at == {i \in 1..Len(c.out) : c.out[i].id = id}
  IN IF at = {} THEN "none" ELSE c.out[CHOOSE i \in at : TRUE].method

\* The lines the child of c can print: a blank line, a line that is not
\* JSON, a message without id, and for every id a message with a result,
\* with an error or with neither.  For an id that is not pending the handler
\* does not look at the rest of the message, so one message stands for all.
LinesFor(c) ==
  {LineMsg("blank", 0, "none", "undef"), LineMsg("garbage", 0, "none", "undef"),
   LineMsg("json", 0, "result", "obj")}
  \cup {LineMsg("json", i, "result", "obj") : i \in Ids \ c.pending}
  \cup UNION {{LineMsg("json", i, "result", p) : p \in ResultsFor(MethodOf(c, i))} :
                i \in c.pending}
  \cup {LineMsg("json", i, k, "undef") : i \in c.pending, k \in {"error", "none"}}

\* The stdio frontend has called process.exit (its close handler finished).
Exited == \E k \in DOMAIN task : task[k].kind = "close" /\ task[k].pc = "done"

\* The bridge's process runs: it has not died or exited, and no failed spawn
\* is about to end it ('error' is emitted on the next tick, before any other
\* event).
Alive == ~crashed /\ ~Exited /\ \A t \in TIds : tr[t].child # "failed"

\* A line arrives on the stdout of the running child of transport t.
OnLine(t, msg) ==
  /\ Alive
  /\ t \in 1..nT
  /\ tr[t].child = "run"
  /\ msg \in LinesFor(tr[t])
  /\ LET hit == LineHits(tr[t], msg)
     IN /\ tr' = [tr EXCEPT ![t].pending = @ \ hit]
        /\ task' = SettleTasks(task, t, hit, RespOf(msg))
        /\ settledBy' = NoteSettled(settledBy, t, hit, "response")
  /\ UNCHANGED <<nT, clients, usage, reported, crashed, cfg, ns>>

\* The 30 s timer of request id fires.  setTimeout is never cancelled, so the
\* callback runs for every id that was issued, whatever happened to it.
OnTimeout(t, id) ==
  /\ Alive
  /\ t \in 1..nT
  /\ id < tr[t].nextId
  /\ LET hit == TimeoutHits(tr[t], id)
     IN /\ tr' = [tr EXCEPT ![t].pending = @ \ hit]
        /\ task' = SettleTasks(task, t, hit, Resp("timeout", "undef"))
        /\ settledBy' = NoteSettled(settledBy, t, hit, "timeout")
  /\ UNCHANGED <<nT, clients, usage, reported, crashed, cfg, ns>>

\* The exit handler if the pending table were shared by all transports: the
\* exit of one child rejects every pending request.
OnExitAll(t) ==
  /\ Alive
  /\ t \in 1..nT
  /\ tr[t].child = "run"
  /\ tr' = [u \in TIds |->
              IF u = t THEN [tr[u] EXCEPT !.pending = {}, !.child = "dead"]
                       ELSE [tr[u] EXCEPT !.pending = {}]]
  /\ task' = [k \in DOMAIN task |->
                IF task[k].pc = "await"
                  THEN [task[k] EXCEPT !.pc = "ready", !.resp = Resp("exited", "undef")]
                  ELSE task[k]]
  /\ settledBy' = [u \in TIds |-> [i \in Ids |->
                     IF i \in tr[u].pending THEN Append(settledBy[u][i], "exit")
                                            ELSE settledBy[u][i]]]
  /\ UNCHANGED <<nT, clients, usage, reported, crashed, cfg, ns>>

\* The child exits (by itself or killed) and its 'exit' event is delivered.
OnExit(t) ==
  /\ Alive
  /\ t \in 1..nT
  /\ tr[t].child = "run"
  /\ LET hit == ExitRejects(tr[t])
     IN /\ tr' = [tr EXCEPT ![t].pending = ExitLeaves(tr[t]), ![t].child = "dead"]
        /\ task' = SettleTasks(task, t, hit, Resp("exited", "undef"))
        /\ settledBy' = NoteSettled(settledBy, t, hit, "exit")
  /\ UNCHANGED <<nT, clients, usage, reported, crashed, cfg, ns>>

\* The spawn of transport t failed asynchronously: the ChildProcess emits
\* 'error'.  start registers a listener for 'exit' only, so the event is
\* unhandled and ends the bridge's process.
OnSpawnError(t) ==
  /\ ~crashed
  /\ t \in 1..nT
  /\ tr[t].child = "failed"
  /\ crashed' = TRUE
  /\ UNCHANGED <<tr, nT, settledBy, task, clients, usage, reported, cfg, ns>>

\* -------------------------------------------------- client.ts: operations
\* start, lines 32-64.  spawn either starts the child ("ok"), throws ("throw":
\* this.process is not assigned) or returns a ChildProcess whose spawn failed
\* ("error": the handle and its pipes exist, 'error' is emitted later).
SpawnOutcomes == {"ok", "throw", "error"}

StartClient(c, how) ==
  CASE how = "ok" -> [c EXCEPT !.process = "obj", !.child = "run"]
    [] how = "error" -> [c EXCEPT !.process = "obj", !.child = "failed"]
    [] OTHER -> c

\* initialize, lines 114-121, after its request settled with resp.
IsRejected(resp) == resp.kind \in {"timeout", "exited", "notstarted"}

InitializeClient(c, resp) ==
  IF IsRejected(resp) \/ resp.kind = "error"
    THEN c
    ELSE Notify([c EXCEPT !.serverInfo = resp.pl], "notifications/initialized")

InitializeOutcome(resp) ==
  CASE IsRejected(resp) -> Outcome("throw", resp.kind)
    [] resp.kind = "error" -> Outcome("throw", "Initialize failed")
    [] OTHER -> Outcome("ok", resp.pl)

\* listTools if it assigned this.tools before looking at the response.
ListToolsClientUnchecked(c, resp) == [c EXCEPT !.tools = ToolsOf(resp.pl)]

\* listTools, lines 127-133; reading result.tools of an undefined result throws.
ListToolsClient(c, resp) ==
  IF IsRejected(resp) \/ resp.kind = "error" \/ resp.pl = "undef"
    THEN c
    ELSE [c EXCEPT !.tools = ToolsOf(resp.pl)]

ListToolsOutcome(resp) ==
  CASE IsRejected(resp) -> Outcome("throw", resp.kind)
    [] resp.kind = "error" -> Outcome("throw", "tools/list failed")
    [] resp.pl = "undef" -> Outcome("throw", "TypeError")
    [] OTHER -> Outcome("ok", ToolsOf(resp.pl))

\* callTool, lines 139-143: the result is returned as it is.
CallToolOutcome(resp) ==
  CASE IsRejected(resp) -> Outcome("throw", resp.kind)
    [] resp.kind = "error" -> Outcome("throw", "tools/call failed")
    [] OTHER -> Outcome("ok", resp.pl)

\* shutdown, lines 146-150.
ShutdownClient(c) ==
  LET n == Notify(c, "notifications/cancelled")
  IN [n EXCEPT !.killed = (c.killed \/ c.process # "null"), !.process = "null"]

\* The continuation of a transport method, by the method awaited.
OpClient(op, c, resp) ==
  CASE op = "initialize" -> InitializeClient(c, resp)
    [] op = "tools/list" -> ListToolsClient(c, resp)
    [] OTHER -> c

OpOutcome(op, resp) ==
  CASE op = "initialize" -> InitializeOutcome(resp)
    [] op = "tools/list" -> ListToolsOutcome(resp)
    [] OTHER -> CallToolOutcome(resp)

Methods == {"initialize", "tools/list", "tools/call"}


\* ------------------------------------------------ callers of one transport
\* A direct caller runs start on a transport that has no child yet.
RawStart(t, how) ==
  /\ Alive
  /\ t \in 1..nT
  /\ tr[t].child = "none"
  /\ tr' = [tr EXCEPT ![t] = StartClient(tr[t], how)]
  /\ UNCHANGED <<nT, settledBy, task, clients, usage, reported, crashed, cfg, ns>>

\* Caller k invokes initialize, listTools or callTool on transport t: request
\* throws at once without a process, and otherwise sends and suspends.
RawCall(k, t, op) ==
  /\ Alive
  /\ t \in 1..nT
  /\ task[k].kind = "raw"
  /\ task[k].pc \in {"idle", "done"}
  /\ IF RequestCanSend(tr[t])
       THEN /\ tr[t].nextId <= MaxRaw
            /\ tr' = [tr EXCEPT ![t] = RequestSend(tr[t], op)]
            /\ task' = [task EXCEPT ![k] =
                 [NewTask("raw") EXCEPT !.pc = "await", !.op = op, !.t = t,
                                        !.id = tr[t].nextId]]
       ELSE /\ tr' = tr
            /\ task' = [task EXCEPT ![k] =
                 [NewTask("raw") EXCEPT !.pc = "done", !.op = op, !.t = t,
                                        !.res = OpOutcome(op, Resp("notstarted", "undef"))]]
  /\ UNCHANGED <<nT, settledBy, clients, usage, reported, crashed, cfg, ns>>

\* The rest of the method runs once its request has settled.
RawResume(k) ==
  /\ Alive
  /\ task[k].kind = "raw"
  /\ task[k].pc = "ready"
  /\ tr' = [tr EXCEPT ![task[k].t] = OpClient(task[k].op, tr[task[k].t], task[k].resp)]
  /\ task' = [task EXCEPT ![k] =
       [NewTask("raw") EXCEPT !.pc = "done", !.op = task[k].op, !.t = task[k].t,
                              !.res = OpOutcome(task[k].op, task[k].resp)]]
  /\ UNCHANGED <<nT, settledBy, clients, usage, reported, crashed, cfg, ns>>

\* A direct caller runs shutdown on a transport that has a process.
RawShutdown(t) ==
  /\ Alive
  /\ t \in 1..nT
  /\ tr[t].process # "null"
  /\ tr' = [tr EXCEPT ![t] = ShutdownClient(tr[t])]
  /\ UNCHANGED <<nT, settledBy, task, clients, usage, reported, crashed, cfg, ns>>

\* ------------------------------------------- the transport specification
\* One StdioClient, constructed, driven by MaxCallers direct callers.
NoSettles == [t \in TIds |-> [i \in Ids |-> <<>>]]
NsIdle == [pc |-> "in", s |-> "", t |-> "", joined |-> "", parsed |-> ParsedNull]

TInitWith(callers) ==
  /\ nT = 1
  /\ tr = [t \in TIds |-> NewClient(IF t = 1 THEN "a" ELSE "")]
  /\ settledBy = NoSettles
  /\ task = [k \in 1..callers |-> NewTask("raw")]
  /\ clients = <<>>
  /\ usage = <<>>
  /\ reported = <<>>
  /\ crashed = FALSE
  /\ cfg = <<>>
  /\ ns = NsIdle

TInit == TInitWith(MaxCallers)

Events ==
  \/ \E t \in TIds : \E msg \in LinesFor(tr[t]) : OnLine(t, msg)
  \/ \E t \in TIds, id \in Ids : OnTimeout(t, id)
  \/ \E t \in TIds : OnExit(t)

TCalls ==
  \/ \E k \in DOMAIN task, t \in TIds, op \in Methods : RawCall(k, t, op)
  \/ \E k \in DOMAIN task : RawResume(k)
  \/ \E t \in TIds : RawShutdown(t)

TNext ==
  \/ \E t \in TIds, how \in SpawnOutcomes : RawStart(t, how)
  \/ \E t \in TIds : OnSpawnError(t)
  \/ TCalls
  \/ Events

TSpec == TInit /\ [][TNext]_vars

\* The same transport while the bridge's process stays alive, with the
\* scheduling the event loop guarantees: a timer that was set fires, and a
\* continuation whose promise has settled runs.
TNextAlive ==
  \/ \E t \in TIds, how \in {"ok", "throw"} : RawStart(t, how)
  \/ TCalls
  \/ Events

TLive ==
  /\ TInitWith(LiveCallers)
  /\ [][TNextAlive]_vars
  /\ \A t \in TIds, id \in Ids : WF_vars(OnTimeout(t, id))
  /\ \A k \in 1..LiveCallers : WF_vars(RawResume(k))


\* ------------------------------------------------------------ manager.ts
\* config.servers: the configured backends; the names are distinct.
ConfigNames == <<"a", "a_">>
Configs == {[i \in 1..Len(ConfigNames) |-> [name |-> ConfigNames[i], enabled |-> e[i]]] :
              e \in [1..Len(ConfigNames) -> BOOLEAN]}

\* connectAll, line 10.
Enabled(servers) == SelectSeq(servers, LAMBDA sv : sv.enabled)

\* Map.get if it returned the first entry whatever the key.
ClientsGetAny(cl, name) == IF cl = <<>> THEN 0 ELSE cl[1].t

\* Map.get on clients: the transport registered under name, 0 for undefined.
ClientsGet(cl, name) ==
  LET hits == {i \in 1..Len(cl) : cl[i].name = name}
  IN IF hits = {} THEN 0 ELSE cl[CHOOSE i \in hits : TRUE].t

\* Map.set on clients: a new key is appended, a present key keeps its place.
ClientsSet(cl, name, t) ==
  IF \E i \in 1..Len(cl) : cl[i].name = name
    THEN [i \in 1..Len(cl) |-> IF cl[i].name = name THEN [name |-> name, t |-> t] ELSE cl[i]]
    ELSE Append(cl, [name |-> name, t |-> t])

\* connect if it registered the client whatever listTools did.
ConnectListOkAlways(out) == TRUE

\* connect, lines 27-28: initialize returned and serverInfo.name can be read.
ConnectInitOk(out) == out.st = "ok" /\ HasServerInfo(out.val)

\* connect, lines 30-31: listTools returned and tools.length can be read.
ConnectListOk(out) == out.st = "ok" /\ out.val # "undef"

\* The entry pushed for a tool if its description were passed on as it is.
ExposedToolUnprefixed(mcpName, tool) ==
  [name |-> namespaceTools(mcpName, tool.name),
   description |-> tool.description,
   inputSchema |-> tool.inputSchema]

\* listAllTools, lines 49-53: the entry pushed for one tool of one backend.
ExposedTool(mcpName, tool) ==
  [name |-> namespaceTools(mcpName, tool.name),
   description |-> IF tool.description \notin {"undef", ""}
                     THEN "[" \o mcpName \o "] " \o tool.description
                     ELSE "undef",
   inputSchema |-> tool.inputSchema]

\* listAllTools, lines 44-58.
RECURSIVE ListAllToolsOf(_, _)
ListAllToolsOf(cl, trs) ==
  IF cl = <<>>
    THEN <<>>
    ELSE LET cat == Catalog(trs[Head(cl).t].tools)
         IN [i \in 1..Len(cat) |-> ExposedTool(Head(cl).name, cat[i])]
              \o ListAllToolsOf(Tail(cl), trs)

listAllTools == ListAllToolsOf(clients, tr)

\* callTool, lines 72-82: the success flag, the error text and the outcome of
\* the try block for the outcome out of the delegated client.callTool;
\* reading isError of an undefined result throws inside the try.
ManagerOutcome(out) ==
  IF out.st = "ok" /\ out.val = "undef" THEN Outcome("throw", "TypeError") ELSE out

ManagerSuccess(out) == out.st = "ok" /\ out.val # "undef" /\ ~IsErrorOf(out.val)

UsageEntry(k, parsed, args, out) ==
  [call |-> k, mcp |-> parsed.mcp, tool |-> parsed.tool, args |-> args,
   success |-> ManagerSuccess(out),
   error |-> IF ManagerOutcome(out).st = "throw" THEN ManagerOutcome(out).val ELSE "undef"]

\* callTool, lines 83-92 with logger.ts 32-46: logToolCall writes with
\* mkdirSync and appendFileSync, which throw when the file system refuses; a
\* throw inside finally replaces the outcome of the try block.
FinallyOutcome(out, logOk) ==
  IF logOk THEN ManagerOutcome(out) ELSE Outcome("throw", "log failure")

\* logToolCall if it dropped the entry.
LogToolCallDropped(log, entry) == log

\* logToolCall, logger.ts 32-46, as seen by its caller: the entry is handed over.
LogToolCall(log, entry) == Append(log, entry)

\* ------------------------------------------------- router.ts: responses
\* ErrorCodes, types.ts 74-80.
PARSE_ERROR == -32700
METHOD_NOT_FOUND == -32601
INVALID_PARAMS == -32602
INTERNAL_ERROR == -32603

\* handleRequest, lines 11-25: the methods the switch has a case for.
RouterMethods == {"initialize", "notifications/initialized", "tools/list", "tools/call", "ping"}

\* handleInitialize, lines 39-54.
handleInitialize(id) == Response(id, "result", 0, "", "mcp-central 0.1.0", <<>>)

\* handleRequest, lines 16 and 25: the empty result.
EmptyResult(id) == Response(id, "result", 0, "", "{}", <<>>)

\* handleToolsList, lines 56-63, with the list manager.listAllTools returned.
handleToolsList(id, tools) == Response(id, "result", 0, "", "tools", tools)

\* The default case if its message did not name the method.
MethodNotFoundBare(id, method) ==
  Response(id, "error", METHOD_NOT_FOUND, "Method not found", "undef", <<>>)

\* handleRequest, lines 27-35: the default case.
MethodNotFound(id, method) ==
  Response(id, "error", METHOD_NOT_FOUND, "Method not found: " \o method, "undef", <<>>)

\* The test of line 69 if it looked at the type only.
NameAcceptedAnyString(v) == v.type = "string"

\* handleToolsCall, line 69: params?.name, and the test it must pass.
ParamsName(req) == IF req.params THEN req.name ELSE JUndef
NameAccepted(v) == Truthy(v) /\ v.type = "string"

\* handleToolsCall, lines 70-77.
InvalidParams(id) ==
  Response(id, "error", INVALID_PARAMS, "Missing 'name' in tools/call params", "undef", <<>>)

\* handleToolsCall, line 83: params.arguments ?? {}.
ArgumentsOf(req) == IF req.args.type \in {"undefined", "null"} THEN "{}" ELSE req.args.val

\* handleToolsCall without its catch: the failure leaves handleRequest.
ToolsCallRethrow(id, out) ==
  IF out.st = "ok"
    THEN Response(id, "result", 0, "", out.val, <<>>)
    ELSE Response(id, "throw", 0, out.val, "undef", <<>>)

\* handleToolsCall, lines 80-95, for the outcome out of manager.callTool.
ToolsCallResponse(id, out) ==
  IF out.st = "ok"
    THEN Response(id, "result", 0, "", out.val, <<>>)
    ELSE Response(id, "error", INTERNAL_ERROR, out.val, "undef", <<>>)

\* What the caller of manager.callTool does with its outcome in the same
\* chain of continuations: the Router makes its response of it.
RouterReturn(tk, out) ==
  IF tk.kind \in {"route", "line"} THEN ToolsCallResponse(tk.req.id, out) ELSE NoResponse

\* The names and arguments callTool is invoked with.
CallNames == {"a__x", "a___x", "x"}
CallArgs == {"{}", "{q}"}

ConnectAllTasks == {1}
CallTasks == 2..(1 + MaxCalls)

\* connectAll is invoked: the enabled configs are selected, the loop starts.
ConnectAllBegin(k) ==
  /\ Alive
  /\ task[k].kind = "connectAll"
  /\ task[k].pc = "idle"
  /\ task' = [task EXCEPT ![k].pc = "loop", ![k].i = 1]
  /\ UNCHANGED <<tr, nT, settledBy, clients, usage, reported, crashed, cfg, ns>>

\* connectAll, lines 12-18, with no config left: it returns.
ConnectAllEnd(k) ==
  /\ Alive
  /\ task[k].kind = "connectAll"
  /\ task[k].pc = "loop"
  /\ task[k].i > Len(Enabled(cfg))
  /\ task' = [task EXCEPT ![k].pc = "done"]
  /\ UNCHANGED <<tr, nT, settledBy, clients, usage, reported, crashed, cfg, ns>>

\* The loop of connectAll if it did not await connect: the next enabled
\* config is started while the previous connect is still suspended.
ConnectNextParallel(k, how) ==
  /\ Alive
  /\ task[k].kind = "connectAll"
  /\ task[k].pc \in {"loop", "await"}
  /\ nT < Len(Enabled(cfg))
  /\ nT < MaxT
  /\ LET name == Enabled(cfg)[nT + 1].name
         t == nT + 1
         c == StartClient(NewClient(name), how)
     IN /\ nT' = t
        /\ tr' = [tr EXCEPT ![t] = IF how # "throw" THEN RequestSend(c, "initialize") ELSE c]
        /\ task' = [task EXCEPT ![k].pc = "await", ![k].op = "initialize",
                                ![k].t = t, ![k].id = c.nextId, ![k].i = t]
        /\ reported' = reported
  /\ UNCHANGED <<settledBy, clients, usage, crashed, cfg, ns>>

\* connect, lines 24-27, for the next enabled config: the client is
\* constructed and started and initialize sends its request; a throw of start
\* is caught by connectAll, which reports it and goes on.
ConnectNext(k, how) ==
  /\ Alive
  /\ task[k].kind = "connectAll"
  /\ task[k].pc = "loop"
  /\ task[k].i <= Len(Enabled(cfg))
  /\ nT < MaxT
  /\ LET name == Enabled(cfg)[task[k].i].name
         t == nT + 1
         c == StartClient(NewClient(name), how)
     IN /\ nT' = t
        /\ IF how # "throw" /\ RequestCanSend(c)
             THEN /\ tr' = [tr EXCEPT ![t] = RequestSend(c, "initialize")]
                  /\ task' = [task EXCEPT ![k].pc = "await", ![k].op = "initialize",
                                          ![k].t = t, ![k].id = c.nextId]
                  /\ reported' = reported
             ELSE /\ tr' = [tr EXCEPT ![t] = c]
                  /\ task' = [task EXCEPT ![k].i = @ + 1]
                  /\ reported' = Append(reported, name)
  /\ UNCHANGED <<settledBy, clients, usage, crashed, cfg, ns>>

\* connect, lines 27-33, after initialize or listTools settled: the next
\* request is sent, or the client is registered, or the failure is caught by
\* connectAll, which reports it and goes on with the next config.
ConnectResume(k) ==
  /\ Alive
  /\ task[k].kind = "connectAll"
  /\ task[k].pc = "ready"
  /\ LET t == task[k].t
         c == OpClient(task[k].op, tr[t], task[k].resp)
         out == OpOutcome(task[k].op, task[k].resp)
         next == [task[k] EXCEPT !.pc = "loop", !.op = "none", !.t = 0, !.id = 0,
                                 !.resp = NoResp, !.i = @ + 1]
     IN IF task[k].op = "initialize" /\ ConnectInitOk(out) /\ RequestCanSend(c)
             /\ c.nextId <= MaxId
          THEN /\ tr' = [tr EXCEPT ![t] = RequestSend(c, "tools/list")]
               /\ task' = [task EXCEPT ![k].pc = "await", ![k].op = "tools/list",
                                       ![k].id = c.nextId, ![k].resp = NoResp]
               /\ UNCHANGED <<clients, reported>>
          ELSE IF task[k].op = "tools/list" /\ ConnectListOk(out)
            THEN /\ tr' = [tr EXCEPT ![t] = c]
                 /\ clients' = ClientsSet(clients, c.name, t)
                 /\ task' = [task EXCEPT ![k] = next]
                 /\ reported' = reported
            ELSE /\ tr' = [tr EXCEPT ![t] = c]
                 /\ task' = [task EXCEPT ![k] = next]
                 /\ reported' = Append(reported, c.name)
                 /\ clients' = clients
  /\ UNCHANGED <<nT, settledBy, usage, crashed, cfg, ns>>

\* callTool, lines 60-76, invoked by task k, whose record becomes me: the
\* name is parsed and looked up, and the call is delegated; a delegated call
\* that throws at once (no process) goes through catch and finally in the
\* same step.
CallToolBegin(k, me, name, args, logOk) ==
  /\ LET parsed == parseNamespacedTool(name)
         t == ClientsGet(clients, parsed.mcp)
         out == CallToolOutcome(Resp("notstarted", "undef"))
         invalid == Outcome("throw", "Invalid tool name format")
         missing == Outcome("throw", "not connected")
     IN IF ~parsed.ok
          THEN /\ task' = [task EXCEPT ![k] =
                    [me EXCEPT !.pc = "done", !.res = invalid,
                               !.rsp = RouterReturn(me, invalid)]]
               /\ UNCHANGED <<tr, usage>>
          ELSE IF t = 0
            THEN /\ task' = [task EXCEPT ![k] =
                      [me EXCEPT !.pc = "done", !.res = missing,
                                 !.rsp = RouterReturn(me, missing)]]
                 /\ UNCHANGED <<tr, usage>>
            ELSE IF RequestCanSend(tr[t])
              THEN /\ tr[t].nextId <= MaxId
                   /\ tr' = [tr EXCEPT ![t] = RequestSend(tr[t], "tools/call")]
                   /\ task' = [task EXCEPT ![k] =
                        [me EXCEPT !.pc = "await", !.op = "tools/call", !.t = t,
                                   !.id = tr[t].nextId, !.deleg = TRUE]]
                   /\ usage' = usage
              ELSE /\ tr' = tr
                   /\ usage' = LogToolCall(usage, UsageEntry(k, parsed, args, out))
                   /\ task' = [task EXCEPT ![k] =
                        [me EXCEPT !.pc = "done", !.deleg = TRUE,
                                   !.res = FinallyOutcome(out, logOk),
                                   !.rsp = RouterReturn(me, FinallyOutcome(out, logOk))]]
  /\ UNCHANGED <<nT, settledBy, clients, reported, crashed, cfg, ns>>

\* Manager.callTool is invoked from outside with a name and arguments.
CallBegin(k, name, args, logOk) ==
  /\ Alive
  /\ task[k].kind = "call"
  /\ task[k].pc = "idle"
  /\ k - 1 \in CallTasks => task[k - 1].pc # "idle"
  /\ CallToolBegin(k, [task[k] EXCEPT !.name = name, !.args = args], name, args, logOk)

\* callTool, lines 76-92, after the delegated call settled: try, catch and
\* finally, which hands the usage entry to logToolCall.
CallToolResume(k, logOk) ==
  /\ Alive
  /\ task[k].pc = "ready"
  /\ LET out == CallToolOutcome(task[k].resp)
     IN /\ usage' = LogToolCall(usage,
             UsageEntry(k, parseNamespacedTool(task[k].name), task[k].args, out))
        /\ task' = [task EXCEPT ![k].pc = "done", ![k].op = "none", ![k].t = 0,
                                ![k].id = 0, ![k].resp = NoResp,
                                ![k].res = FinallyOutcome(out, logOk),
                                ![k].rsp = RouterReturn(task[k], FinallyOutcome(out, logOk))]
  /\ UNCHANGED <<tr, nT, settledBy, clients, reported, crashed, cfg, ns>>

CallResume(k, logOk) ==
  /\ task[k].kind = "call"
  /\ CallToolResume(k, logOk)

\* ---------------------------------------------- the manager specification
\* One McpManager with an empty registry; connectAll runs over a config and
\* MaxCalls callTool invocations arrive at any time.
Init ==
  /\ nT = 0
  /\ tr = [t \in TIds |-> NewClient("")]
  /\ settledBy = NoSettles
  /\ task = [k \in ConnectAllTasks \cup CallTasks |->
               NewTask(IF k \in ConnectAllTasks THEN "connectAll" ELSE "call")]
  /\ clients = <<>>
  /\ usage = <<>>
  /\ reported = <<>>
  /\ crashed = FALSE
  /\ cfg \in Configs
  /\ ns = NsIdle

Next ==
  \/ \E k \in ConnectAllTasks : ConnectAllBegin(k)
  \/ \E k \in ConnectAllTasks, how \in SpawnOutcomes : ConnectNext(k, how)
  \/ \E k \in ConnectAllTasks : ConnectResume(k)
  \/ \E k \in ConnectAllTasks : ConnectAllEnd(k)
  \/ \E k \in CallTasks, name \in CallNames, args \in CallArgs, logOk \in BOOLEAN :
       CallBegin(k, name, args, logOk)
  \/ \E k \in CallTasks, logOk \in BOOLEAN : CallResume(k, logOk)
  \/ \E t \in TIds : OnSpawnError(t)
  \/ Events

Spec == Init /\ [][Next]_vars

\* -------------------------------------------- the connectAll specification
\* connectAll alone on one McpManager, with the scheduling the event loop
\* guarantees: a timer that was set fires, and code that can run does run.
\* What a backend prints, and whether it exits, is up to the backend.
CInit ==
  /\ nT = 0
  /\ tr = [t \in TIds |-> NewClient("")]
  /\ settledBy = NoSettles
  /\ task = [k \in ConnectAllTasks |-> NewTask("connectAll")]
  /\ clients = <<>>
  /\ usage = <<>>
  /\ reported = <<>>
  /\ crashed = FALSE
  /\ cfg \in Configs
  /\ ns = NsIdle

CNext ==
  \/ \E k \in ConnectAllTasks : ConnectAllBegin(k)
  \/ \E k \in ConnectAllTasks, how \in SpawnOutcomes : ConnectNext(k, how)
  \/ \E k \in ConnectAllTasks : ConnectResume(k)
  \/ \E k \in ConnectAllTasks : ConnectAllEnd(k)
  \/ \E t \in TIds : OnSpawnError(t)
  \/ Events

CLive ==
  /\ CInit
  /\ [][CNext]_vars
  /\ \A t \in TIds, id \in Ids : WF_vars(OnTimeout(t, id))
  /\ \A k \in ConnectAllTasks :
       /\ WF_vars(ConnectAllBegin(k))
       /\ WF_vars(\E how \in SpawnOutcomes : ConnectNext(k, how))
       /\ WF_vars(ConnectResume(k))
       /\ WF_vars(ConnectAllEnd(k))

\* ---------------------------------------------------- router.ts: handling
\* The requests handed to the Router: every method the switch knows and two
\* it does not, with and without an id; tools/call without params, with a
\* name that is absent, null, empty or not a string, and with a string name
\* and arguments that are absent, null or an object.
ReqIds == {"undef", "i"}
UnknownMethods == {"foo/bar", "Ping"}

RouterRequests ==
  {Request(id, m, FALSE, JUndef, JUndef) :
     id \in ReqIds, m \in (RouterMethods \ {"tools/call"}) \cup UnknownMethods}
  \cup {Request("i", "tools/call", FALSE, JUndef, JUndef)}
  \cup {Request("i", "tools/call", TRUE, n, JUndef) :
          n \in {JUndef, JNull, JStr(""), JVal("number", "5")}}
  \cup {Request("i", "tools/call", TRUE, JStr(n), a) :
          n \in {"x", "a__x"}, a \in {JUndef, JNull, JVal("object", "{q}")}}
  \cup {Request("undef", "tools/call", TRUE, JStr("a__x"), JUndef)}

RouteTasks == 2..(1 + MaxRoutes)

\* handleRequest, lines 8-37, for a request it answers without suspending;
\* tools/call gets here when its name is refused (handleToolsCall, 69-78).
handleRequestNow(req) ==
  CASE req.method = "initialize" -> handleInitialize(req.id)
    [] req.method = "notifications/initialized" -> EmptyResult(req.id)
    [] req.method = "tools/list" -> handleToolsList(req.id, listAllTools)
    [] req.method = "tools/call" -> InvalidParams(req.id)
    [] req.method = "ping" -> EmptyResult(req.id)
    [] OTHER -> MethodNotFound(req.id, req.method)

\* Router.handleRequest is invoked with req: it answers at once, or
\* handleToolsCall invokes manager.callTool with the name and the arguments.
RouteBegin(k, req, logOk) ==
  /\ Alive
  /\ task[k].kind = "route"
  /\ task[k].pc = "idle"
  /\ k - 1 \in RouteTasks => task[k - 1].pc # "idle"
  /\ LET me == [task[k] EXCEPT !.req = req]
     IN IF req.method = "tools/call" /\ NameAccepted(ParamsName(req))
          THEN CallToolBegin(k,
                 [me EXCEPT !.mgr = "callTool", !.name = req.name.val,
                            !.args = ArgumentsOf(req)],
                 req.name.val, ArgumentsOf(req), logOk)
          ELSE /\ task' = [task EXCEPT ![k] =
                    [me EXCEPT !.pc = "done", !.rsp = handleRequestNow(req),
                               !.mgr = IF req.method = "tools/list"
                                         THEN "listAllTools" ELSE "none"]]
               /\ UNCHANGED <<tr, nT, settledBy, clients, usage, reported, crashed,
                              cfg, ns>>

\* handleToolsCall, lines 81-95, once manager.callTool has settled.
RouteResume(k, logOk) ==
  /\ task[k].kind = "route"
  /\ CallToolResume(k, logOk)

\* shutdownAll, manager.ts 99-105: every registered client is shut down and
\* the registry is cleared.
ShutdownAll ==
  /\ Alive
  /\ clients # <<>>
  /\ tr' = [t \in TIds |->
              IF \E i \in 1..Len(clients) : clients[i].t = t
                THEN ShutdownClient(tr[t])
                ELSE tr[t]]
  /\ clients' = <<>>
  /\ UNCHANGED <<nT, settledBy, task, usage, reported, crashed, cfg, ns>>

\* Map.delete if it dropped the first entry whatever the key.
ClientsDeleteFirst(cl, name) == IF cl = <<>> THEN cl ELSE Tail(cl)

\* Map.delete on clients: the entry of name goes, the others keep their order.
ClientsDelete(cl, name) == SelectSeq(cl, LAMBDA e : e.name # name)

\* The names disconnect is called with: the configured ones and a stranger.
DisconnectNames == {ConfigNames[i] : i \in 1..Len(ConfigNames)} \cup {"zz"}

\* disconnect, manager.ts 36-42: a registered client is shut down and then
\* removed from the registry; an unknown name does nothing.
Disconnect(name) ==
  /\ Alive
  /\ LET t == ClientsGet(clients, name)
     IN IF t = 0
          THEN UNCHANGED <<tr, clients>>
          ELSE /\ tr' = [tr EXCEPT ![t] = ShutdownClient(tr[t])]
               /\ clients' = ClientsDelete(clients, name)
  /\ UNCHANGED <<nT, settledBy, task, usage, reported, crashed, cfg, ns>>

\* ------------------------------------------- the disconnect specification
\* One McpManager: connectAll runs over a config, one callTool arrives at any
\* time, and disconnect and shutdownAll are called at any time, also while
\* connectAll or the callTool is suspended.
DInit ==
  /\ nT = 0
  /\ tr = [t \in TIds |-> NewClient("")]
  /\ settledBy = NoSettles
  /\ task = [k \in ConnectAllTasks \cup {2} |->
               NewTask(IF k \in ConnectAllTasks THEN "connectAll" ELSE "call")]
  /\ clients = <<>>
  /\ usage = <<>>
  /\ reported = <<>>
  /\ crashed = FALSE
  /\ cfg \in Configs
  /\ ns = NsIdle

DNext ==
  \/ \E k \in ConnectAllTasks : ConnectAllBegin(k)
  \/ \E k \in ConnectAllTasks, how \in SpawnOutcomes : ConnectNext(k, how)
  \/ \E k \in ConnectAllTasks : ConnectResume(k)
  \/ \E k \in ConnectAllTasks : ConnectAllEnd(k)
  \/ \E name \in CallNames, args \in CallArgs, logOk \in BOOLEAN :
       CallBegin(2, name, args, logOk)
  \/ \E logOk \in BOOLEAN : CallResume(2, logOk)
  \/ \E t \in TIds : OnSpawnError(t)
  \/ Events
  \/ \E name \in DisconnectNames : Disconnect(name)
  \/ ShutdownAll

DSpec == DInit /\ [][DNext]_vars

\* --------------------------------------------------- the stdio frontend
MaxLines == 2

LineTasks == 2..(1 + MaxLines)
CloseTask == 2 + MaxLines

\* The requests that arrive as lines: with an id, with the id null and
\* without one; answered at once or after a backend.
FrontendRequests ==
  {Request(id, "ping", FALSE, JUndef, JUndef) : id \in {"undef", "i", "null"}}
  \cup {Request(id, "tools/call", TRUE, JStr("a__x"), JUndef) : id \in ReqIds}
  \cup {Request("i", m, FALSE, JUndef, JUndef) : m \in {"tools/list", "tools/call", "foo/bar"}}

\* An input line: blank, not JSON, the JSON text null, or a request object.
FrontendLines ==
  {[shape |-> sh, req |-> NoRequest] : sh \in {"blank", "garbage", "null"}}
  \cup {[shape |-> "json", req |-> r] : r \in FrontendRequests}

\* The response of the catch block, lines 39-48.
ParseError == Response("null", "error", PARSE_ERROR, "Parse error", "undef", <<>>)

\* Lines 30-36: the response is written unless request.id is undefined.
FrontendWrites(req, rsp) == IF req.id = "undef" THEN <<>> ELSE <<rsp>>

\* runStdioServer creates the readline interface once connectAll has returned.
Listening == \A k \in ConnectAllTasks : task[k].pc = "done"

\* A line arrives, lines 25-32.  A blank line is skipped; JSON.parse throws
\* on what is not JSON, and reading request.id throws on null: the catch
\* block writes the parse-error response; otherwise router.handleRequest is
\* invoked and awaited.
LineBegin(k, ln, logOk) ==
  /\ Alive
  /\ Listening
  /\ task[k].kind = "line"
  /\ task[k].pc = "idle"
  /\ k - 1 \in LineTasks => task[k - 1].pc # "idle"
  /\ LET req == ln.req
         me == [task[k] EXCEPT !.req = req, !.line = ln.shape]
     IN IF ln.shape = "blank"
          THEN /\ task' = [task EXCEPT ![k] = [me EXCEPT !.pc = "end"]]
               /\ UNCHANGED <<tr, nT, settledBy, clients, usage, reported, crashed,
                              cfg, ns>>
          ELSE IF ln.shape \in {"garbage", "null"}
            THEN /\ task' = [task EXCEPT ![k] =
                      [me EXCEPT !.pc = "end", !.outl = <<ParseError>>]]
                 /\ UNCHANGED <<tr, nT, settledBy, clients, usage, reported, crashed,
                                cfg, ns>>
            ELSE IF req.method = "tools/call" /\ NameAccepted(ParamsName(req))
              THEN CallToolBegin(k,
                     [me EXCEPT !.mgr = "callTool", !.name = req.name.val,
                                !.args = ArgumentsOf(req)],
                     req.name.val, ArgumentsOf(req), logOk)
              ELSE /\ task' = [task EXCEPT ![k] =
                        [me EXCEPT !.pc = "done", !.rsp = handleRequestNow(req),
                                   !.mgr = IF req.method = "tools/list"
                                             THEN "listAllTools" ELSE "none"]]
                   /\ UNCHANGED <<tr, nT, settledBy, clients, usage, reported,
                                  crashed, cfg, ns>>

\* manager.callTool has settled and handleToolsCall returns (router.ts 81-95).
LineResume(k, logOk) ==
  /\ task[k].kind = "line"
  /\ CallToolResume(k, logOk)

\* Lines 34-36: router.handleRequest has returned and the handler goes on
\* after its await.
LineWrite(k) ==
  /\ Alive
  /\ task[k].kind = "line"
  /\ task[k].pc = "done"
  /\ task' = [task EXCEPT ![k].pc = "end",
                          ![k].outl = FrontendWrites(task[k].req, task[k].rsp)]
  /\ UNCHANGED <<tr, nT, settledBy, clients, usage, reported, crashed, cfg, ns>>

\* The input ends, lines 52-56: shutdownAll, then process.exit.
Close(k) ==
  /\ Alive
  /\ Listening
  /\ task[k].kind = "close"
  /\ task[k].pc = "idle"
  /\ tr' = [t \in TIds |->
              IF \E i \in 1..Len(clients) : clients[i].t = t
                THEN ShutdownClient(tr[t])
                ELSE tr[t]]
  /\ clients' = <<>>
  /\ task' = [task EXCEPT ![k].pc = "done"]
  /\ UNCHANGED <<nT, settledBy, usage, reported, crashed, cfg, ns>>

\* runStdioServer: connectAll over the config, then lines arrive at any time
\* and the input ends at any time.
FInit ==
  /\ nT = 0
  /\ tr = [t \in TIds |-> NewClient("")]
  /\ settledBy = NoSettles
  /\ task = [k \in ConnectAllTasks \cup LineTasks \cup {CloseTask} |->
               NewTask(IF k \in ConnectAllTasks THEN "connectAll"
                       ELSE IF k \in LineTasks THEN "line" ELSE "close")]
  /\ clients = <<>>
  /\ usage = <<>>
  /\ reported = <<>>
  /\ crashed = FALSE
  /\ cfg \in Configs
  /\ ns = NsIdle

FNext ==
  \/ \E k \in ConnectAllTasks : ConnectAllBegin(k)
  \/ \E k \in ConnectAllTasks, how \in SpawnOutcomes : ConnectNext(k, how)
  \/ \E k \in ConnectAllTasks : ConnectResume(k)
  \/ \E k \in ConnectAllTasks : ConnectAllEnd(k)
  \/ \E k \in LineTasks, ln \in FrontendLines, logOk \in BOOLEAN : LineBegin(k, ln, logOk)
  \/ \E k \in LineTasks, logOk \in BOOLEAN : LineResume(k, logOk)
  \/ \E k \in LineTasks : LineWrite(k)
  \/ Close(CloseTask)
  \/ \E t \in TIds : OnSpawnError(t)
  \/ Events

FSpec == FInit /\ [][FNext]_vars

\* The frontend with the scheduling the event loop guarantees: timers fire
\* and continuations run; when the input ends is up to the caller.
FLive ==
  /\ FInit
  /\ [][FNext]_vars
  /\ \A t \in TIds, id \in Ids : WF_vars(OnTimeout(t, id))
  /\ \A k \in LineTasks :
       /\ WF_vars(\E logOk \in BOOLEAN : LineResume(k, logOk))
       /\ WF_vars(LineWrite(k))

\* ------------------------------------------------- api.ts: config servers
MaxServers == 3

\* The names servers are added, removed and updated with.
ServerNames == {"a", "a_", "b"}

\* The update objects updateServer is handed: the body of a PATCH request as
\* it was parsed, with any of the members of a server.
ServerUpdates ==
  {[enabled |-> e] : e \in BOOLEAN}
  \cup {[name |-> n] : n \in ServerNames}
  \cup {[name |-> n, enabled |-> e] : n \in ServerNames, e \in BOOLEAN}

\* Object.assign(server, updates): every member of updates is copied.
ObjectAssign(server, updates) ==
  [key \in DOMAIN server |->
     IF key \in DOMAIN updates THEN updates[key] ELSE server[key]]

\* servers.some / find / findIndex by name: the first index, 0 for none.
FindServer(servers, name) ==
  LET hits == {i \in 1..Len(servers) : servers[i].name = name}
  IN IF hits = {} THEN 0 ELSE CHOOSE i \in hits : \A j \in hits : i <= j

\* What a config function did: returned or threw, in task[1].
ConfigDone(op, name, out) ==
  task' = [task EXCEPT ![1].pc = "done", ![1].op = op, ![1].name = name,
                       ![1].res = out]

\* addServer, api.ts 216-221.
addServer(server) ==
  /\ IF FindServer(cfg, server.name) # 0
       THEN /\ cfg' = cfg
            /\ ConfigDone("addServer", server.name, Outcome("throw", "already exists"))
       ELSE /\ Len(cfg) < MaxServers
            /\ cfg' = Append(cfg, server)
            /\ ConfigDone("addServer", server.name, Outcome("ok", "undef"))
  /\ UNCHANGED <<tr, nT, settledBy, clients, usage, reported, crashed, ns>>

\* removeServer, api.ts 223-229.
removeServer(name) ==
  /\ LET idx == FindServer(cfg, name)
     IN IF idx = 0
          THEN /\ cfg' = cfg
               /\ ConfigDone("removeServer", name, Outcome("throw", "not found"))
          ELSE /\ cfg' = SubSeq(cfg, 1, idx - 1) \o SubSeq(cfg, idx + 1, Len(cfg))
               /\ ConfigDone("removeServer", name, Outcome("ok", "server"))
  /\ UNCHANGED <<tr, nT, settledBy, clients, usage, reported, crashed, ns>>

\* updateServer, api.ts 231-242.
updateServer(name, updates) ==
  /\ LET idx == FindServer(cfg, name)
     IN IF idx = 0
          THEN /\ cfg' = cfg
               /\ ConfigDone("updateServer", name, Outcome("throw", "not found"))
          ELSE /\ cfg' = [cfg EXCEPT ![idx] = ObjectAssign(cfg[idx], updates)]
               /\ ConfigDone("updateServer", name, Outcome("ok", "server"))
  /\ UNCHANGED <<tr, nT, settledBy, clients, usage, reported, crashed, ns>>

\* A Config as loadConfig creates it (no servers), and the three functions
\* applied in any order.
GInit ==
  /\ nT = 0
  /\ tr = [t \in TIds |-> NewClient("")]
  /\ settledBy = NoSettles
  /\ task = <<NewTask("config")>>
  /\ clients = <<>>
  /\ usage = <<>>
  /\ reported = <<>>
  /\ crashed = FALSE
  /\ cfg = <<>>
  /\ ns = NsIdle

GNext ==
  \/ \E n \in ServerNames, e \in BOOLEAN : addServer([name |-> n, enabled |-> e])
  \/ \E n \in ServerNames : removeServer(n)
  \/ \E n \in ServerNames, u \in ServerUpdates : updateServer(n, u)

GSpec == GInit /\ [][GNext]_vars

\* ------------------------------------------------ logger.ts: the log file
MAX_LOG_ENTRIES == 5000
ROTATE_THRESHOLD == 6000

MaxLogCalls == 7005
MaxPendingChecks == 2

\* The lines of the log file.  An entry is the number of the logToolCall
\* that wrote it, and the file is kept as its runs of consecutive numbers:
\* <<[lo |-> 3, hi |-> 5], [lo |-> 9, hi |-> 9]>> is the file with the
\* entries 3, 4, 5, 9 in this order.
RECURSIVE LinesLength(_)
LinesLength(lines) ==
  IF lines = <<>> THEN 0
  ELSE Head(lines).hi - Head(lines).lo + 1 + LinesLength(Tail(lines))

\* appendFileSync of entry n.
AppendLine(lines, n) ==
  IF lines # <<>> /\ lines[Len(lines)].hi + 1 = n
    THEN [lines EXCEPT ![Len(lines)].hi = n]
    ELSE Append(lines, [lo |-> n, hi |-> n])

\* lines.slice(d): the lines without the first d.
RECURSIVE SliceFrom(_, _)
SliceFrom(lines, d) ==
  IF d <= 0 \/ lines = <<>> THEN lines
  ELSE LET n == Head(lines).hi - Head(lines).lo + 1
       IN IF n <= d
            THEN SliceFrom(Tail(lines), d - n)
            ELSE <<[lo |-> Head(lines).lo + d, hi |-> Head(lines).hi]>> \o Tail(lines)

\* lines.slice(0, n): the first n lines.
RECURSIVE SliceTo(_, _)
SliceTo(lines, n) ==
  IF n <= 0 \/ lines = <<>> THEN <<>>
  ELSE LET m == Head(lines).hi - Head(lines).lo + 1
       IN IF m <= n
            THEN <<Head(lines)>> \o SliceTo(Tail(lines), n - m)
            ELSE <<[lo |-> Head(lines).lo, hi |-> Head(lines).lo + n - 1]>>

\* lines.slice(-n) if it kept the first n lines.
SliceFirst(lines, n) == SliceTo(lines, n)

\* lines.slice(-n): the last n lines.
SliceLast(lines, n) == SliceFrom(lines, LinesLength(lines) - n)

\* rotateIfNeeded, logger.ts 48-63, on the lines of the file.
rotateIfNeeded(lines) ==
  IF LinesLength(lines) > ROTATE_THRESHOLD
    THEN SliceLast(lines, MAX_LOG_ENTRIES)
    ELSE lines

\* logToolCall, logger.ts 32-46: the entry is appended to the file and a
\* rotation check is scheduled with setImmediate.  Here usage is the file,
\* task[1].id counts the calls and task[1].i the checks that are scheduled.
LogCall ==
  /\ task[1].kind = "logger"
  /\ task[1].id < MaxLogCalls
  /\ task[1].i < MaxPendingChecks
  /\ usage' = AppendLine(usage, task[1].id + 1)
  /\ task' = [task EXCEPT ![1].id = @ + 1, ![1].i = @ + 1]
  /\ UNCHANGED <<tr, nT, settledBy, clients, reported, crashed, cfg, ns>>

\* A scheduled rotation check runs.
RotateCheck ==
  /\ task[1].kind = "logger"
  /\ task[1].i > 0
  /\ usage' = rotateIfNeeded(usage)
  /\ task' = [task EXCEPT ![1].i = @ - 1]
  /\ UNCHANGED <<tr, nT, settledBy, clients, reported, crashed, cfg, ns>>

\* An empty log file and no call yet.
UInit ==
  /\ nT = 0
  /\ tr = [t \in TIds |-> NewClient("")]
  /\ settledBy = NoSettles
  /\ task = <<NewTask("logger")>>
  /\ clients = <<>>
  /\ usage = <<>>
  /\ reported = <<>>
  /\ crashed = FALSE
  /\ cfg = <<>>
  /\ ns = NsIdle

UNext == LogCall \/ RotateCheck

USpec == UInit /\ [][UNext]_vars

\* ------------------------------------------ overlapping connectAll runs
MaxRuns == 2

ConnectRuns == 1..MaxRuns

\* One McpManager on which connectAll is invoked MaxRuns times over the same
\* config, a run starting at any time, also while an earlier one is
\* suspended (start-up and POST /api/reload, api.ts 160-175), and
\* shutdownAll is called at any time.
OInit ==
  /\ nT = 0
  /\ tr = [t \in TIds |-> NewClient("")]
  /\ settledBy = NoSettles
  /\ task = [k \in ConnectRuns |-> NewTask("connectAll")]
  /\ clients = <<>>
  /\ usage = <<>>
  /\ reported = <<>>
  /\ crashed = FALSE
  /\ cfg \in Configs
  /\ ns = NsIdle

ONext ==
  \/ \E k \in ConnectRuns : ConnectAllBegin(k)
  \/ \E k \in ConnectRuns, how \in SpawnOutcomes : ConnectNext(k, how)
  \/ \E k \in ConnectRuns : ConnectResume(k)
  \/ \E k \in ConnectRuns : ConnectAllEnd(k)
  \/ ShutdownAll
  \/ \E t \in TIds : OnSpawnError(t)
  \/ Events

OSpec == OInit /\ [][ONext]_vars

\* ----------------------------------------------- the router specification
\* One Router on one McpManager: connectAll runs over a config, requests
\* arrive at any time, and the registry can be shut down at any time.
RInit ==
  /\ nT = 0
  /\ tr = [t \in TIds |-> NewClient("")]
  /\ settledBy = NoSettles
  /\ task = [k \in ConnectAllTasks \cup RouteTasks |->
               NewTask(IF k \in ConnectAllTasks THEN "connectAll" ELSE "route")]
  /\ clients = <<>>
  /\ usage = <<>>
  /\ reported = <<>>
  /\ crashed = FALSE
  /\ cfg \in Configs
  /\ ns = NsIdle

RNext ==
  \/ \E k \in ConnectAllTasks : ConnectAllBegin(k)
  \/ \E k \in ConnectAllTasks, how \in SpawnOutcomes : ConnectNext(k, how)
  \/ \E k \in ConnectAllTasks : ConnectResume(k)
  \/ \E k \in ConnectAllTasks : ConnectAllEnd(k)
  \/ \E k \in RouteTasks, req \in RouterRequests, logOk \in BOOLEAN :
       RouteBegin(k, req, logOk)
  \/ \E k \in RouteTasks, logOk \in BOOLEAN : RouteResume(k, logOk)
  \/ ShutdownAll
  \/ \E t \in TIds : OnSpawnError(t)
  \/ Events

RSpec == RInit /\ [][RNext]_vars

\* ------------------------------------------- the namespacing specification
\* The strings of at most n characters over a letter and the underscore.
RECURSIVE StringsUpTo(_)
StringsUpTo(n) ==
  IF n = 0
    THEN {""}
    ELSE StringsUpTo(n - 1) \cup {s \o ch : s \in StringsUpTo(n - 1), ch \in {"a", "_"}}

\* A backend name and a tool name are drawn; the exposed name is built ...
NsInit ==
  /\ nT = 0
  /\ tr = [t \in TIds |-> NewClient("")]
  /\ settledBy = NoSettles
  /\ task = [k \in {} |-> NewTask("raw")]
  /\ clients = <<>>
  /\ usage = <<>>
  /\ reported = <<>>
  /\ crashed = FALSE
  /\ cfg = <<>>
  /\ ns \in {[NsIdle EXCEPT !.s = s, !.t = t] :
               s \in StringsUpTo(MaxNameLen), t \in StringsUpTo(MaxNameLen)}

NsJoin ==
  /\ ns.pc = "in"
  /\ ns' = [ns EXCEPT !.pc = "joined", !.joined = namespaceTools(ns.s, ns.t)]
  /\ UNCHANGED <<tr, nT, settledBy, task, clients, usage, reported, crashed, cfg>>

\* ... and split again.
NsParse ==
  /\ ns.pc = "joined"
  /\ ns' = [ns EXCEPT !.pc = "parsed", !.parsed = parseNamespacedTool(ns.joined)]
  /\ UNCHANGED <<tr, nT, settledBy, task, clients, usage, reported, crashed, cfg>>

NsNext == NsJoin \/ NsParse

NsSpec == NsInit /\ [][NsNext]_vars

\* parseNamespacedTool on its own: any string is handed to it.
PInit ==
  /\ nT = 0
  /\ tr = [t \in TIds |-> NewClient("")]
  /\ settledBy = NoSettles
  /\ task = [k \in {} |-> NewTask("raw")]
  /\ clients = <<>>
  /\ usage = <<>>
  /\ reported = <<>>
  /\ crashed = FALSE
  /\ cfg = <<>>
  /\ ns \in {[NsIdle EXCEPT !.pc = "joined", !.joined = s] : s \in StringsUpTo(MaxParseLen)}

PNext == NsParse

PSpec == PInit /\ [][PNext]_vars

\* ------------------------------------------------------------- properties
\* The task suspended on request id of transport t, if any.
Awaiting(tk, t, id) == {k \in DOMAIN tk : tk[k].pc = "await" /\ tk[k].t = t /\ tk[k].id = id}

\* C1: for every request id of every transport, resolve or reject is called at
\* most once over all interleavings of response line, timer and process exit;
\* the trigger that acts removes the id from the pending table, so an id that
\* is still pending has not been settled and a settled id is not pending: a
\* later trigger finds nothing and does nothing.
C1_SettledAtMostOnce ==
  \A t \in TIds, id \in Ids :
    /\ Len(settledBy[t][id]) <= 1
    /\ id \in tr[t].pending => settledBy[t][id] = <<>>

\* C1 witness: one transport has settled one request by a response and another
\* by its timer, and a third trigger, the exit, has run after both.
C1_Witness ==
  \E t \in TIds :
    /\ tr[t].child = "dead"
    /\ \E i, j \in Ids : settledBy[t][i] = <<"response">> /\ settledBy[t][j] = <<"timeout">>

\* C2: the step in which the child's exit is delivered rejects every request
\* that was pending with a process-exited error and leaves the table empty.
C2_ExitRejectsAll ==
  [][\A t \in TIds :
       (tr[t].child = "run" /\ tr'[t].child = "dead") =>
         /\ tr'[t].pending = {}
         /\ \A id \in tr[t].pending :
              /\ settledBy'[t][id] = <<"exit">>
              /\ \A k \in Awaiting(task, t, id) :
                   task'[k].pc = "ready" /\ task'[k].resp.kind = "exited"]_vars

\* C2 witness: a child has exited with two requests outstanding.
C2_Witness ==
  \E t \in TIds :
    /\ tr[t].child = "dead"
    /\ Cardinality({id \in Ids : settledBy[t][id] = <<"exit">>}) >= 2

\* C3: every request a transport has accepted is eventually settled, given
\* that timers fire; this includes one sent after the child exited by itself.
C3_EventuallySettled ==
  \A t \in TIds, id \in Ids :
    (id \in tr[t].pending) ~> (id \notin tr[t].pending /\ Len(settledBy[t][id]) = 1)

\* C3 witness: a request is pending on a transport whose child has already
\* exited without shutdown having been called.
C3_Witness ==
  \E t \in TIds :
    /\ tr[t].child = "dead"
    /\ ~tr[t].killed
    /\ tr[t].process # "null"
    /\ tr[t].pending # {}


\* The transports in the registry, and the calls of Manager.callTool.
Registered == {clients[i].t : i \in 1..Len(clients)}
Calls == {k \in DOMAIN task : task[k].kind = "call"}
Connects == {k \in DOMAIN task : task[k].kind = "connectAll"}
EntriesOf(k) == {i \in 1..Len(usage) : usage[i].call = k}

\* C4: every transport in the registry is registered under its own name, has
\* a spawned child, had initialize and tools/list answered by a response, has
\* a server identity and a fetched catalog stored and has sent the initialized
\* notification; a transport whose connect is still in progress is not in the
\* registry.
C4_RegisteredAreInitialized ==
  /\ \A i \in 1..Len(clients) :
       LET t == clients[i].t
           c == tr[t]
       IN /\ t \in 1..nT
          /\ c.name = clients[i].name
          /\ c.child \in {"run", "dead"}
          /\ MethodOf(c, 1) = "initialize" /\ settledBy[t][1] = <<"response">>
          /\ MethodOf(c, 2) = "tools/list" /\ settledBy[t][2] = <<"response">>
          /\ HasServerInfo(c.serverInfo)
          /\ c.tools = "cat"
          /\ \E n \in 1..Len(c.out) : c.out[n] = OutLine(0, "notifications/initialized")
  /\ \A k \in Connects : task[k].pc \in {"await", "ready"} => task[k].t \notin Registered

\* C4 witness: one backend is registered while connectAll is suspended in the
\* connect of the next one and a callTool is in flight.
C4_Witness ==
  /\ clients # <<>>
  /\ \E k \in Connects : task[k].pc = "await"
  /\ \E k \in Calls : task[k].pc = "await"

\* C5 (as claimed): once connectAll has returned the registry holds exactly
\* the enabled configs that were not reported as failed, and every enabled
\* config is registered or reported; a child is spawned for enabled configs
\* only; and no connect failure, a failed spawn included, ends the bridge
\* before connectAll has gone through the remaining configs.
C5_ConnectAllBestEffort ==
  LET en == Enabled(cfg)
      enabledNames == {en[i].name : i \in 1..Len(en)}
      registeredNames == {clients[i].name : i \in 1..Len(clients)}
      reportedNames == {reported[i] : i \in 1..Len(reported)}
  IN /\ \A k \in Connects :
          task[k].pc = "done" =>
            /\ registeredNames = enabledNames \ reportedNames
            /\ enabledNames = registeredNames \cup reportedNames
     /\ \A t \in 1..nT : tr[t].name \in enabledNames
     /\ \A k \in Connects : crashed => task[k].pc = "done"

DelegatedOutcome(k) ==
  IF task[k].pc = "ready"
    THEN CallToolOutcome(task[k].resp)
    ELSE CallToolOutcome(Resp("notstarted", "undef"))

\* C7 (as claimed): the step that ends a delegated call appends exactly one
\* usage entry, with the backend name, the unqualified tool name and the
\* arguments of the call, whose success flag is false exactly when the
\* delegated call threw or returned a result with isError = true.
C7_UsageEntryTellsOutcome ==
  [][\A k \in Calls :
       (task[k].pc # "done" /\ task'[k].pc = "done" /\ task'[k].deleg) =>
         LET out == DelegatedOutcome(k)
             parsed == parseNamespacedTool(task'[k].name)
             e == usage'[Len(usage')]
         IN /\ Len(usage') = Len(usage) + 1
            /\ SubSeq(usage', 1, Len(usage)) = usage
            /\ e.call = k
            /\ e.mcp = parsed.mcp /\ e.tool = parsed.tool /\ e.args = task'[k].args
            /\ (e.success = FALSE) <=> (out.st = "throw" \/ IsErrorOf(out.val))]_vars

\* C8 (as claimed): whether or not the usage log accepts the entry, the step
\* that ends a delegated call gives the caller the outcome of the try block.
C8_SinkFailureHarmless ==
  [][\A k \in Calls :
       (task[k].pc # "done" /\ task'[k].pc = "done" /\ task'[k].deleg) =>
         task'[k].res = FinallyOutcome(DelegatedOutcome(k), TRUE)]_vars

\* C9 (as claimed): for a backend name without the separator, splitting the
\* exposed name gives back the backend name and the tool name.
C9_SplitInvertsJoin ==
  (ns.pc = "parsed" /\ IndexOf(ns.s, NAMESPACE_SEPARATOR) = -1) =>
    ns.parsed = [ok |-> TRUE, mcp |-> ns.s, tool |-> ns.t]

\* C10 (as claimed): with distinct registered names, listAllTools has exactly
\* one entry named s__t for every tool t of every registered backend s, and no
\* two of its entries have the same name.
C10_ExposedNamesUnique ==
  LET all == listAllTools
  IN (\A i, j \in 1..Len(clients) : i # j => clients[i].name # clients[j].name) =>
       /\ \A i \in 1..Len(clients) :
            LET cat == Catalog(tr[clients[i].t].tools)
            IN \A j \in 1..Len(cat) :
                 Cardinality({n \in 1..Len(all) :
                   all[n].name = namespaceTools(clients[i].name, cat[j].name)}) = 1
       /\ \A m, n \in 1..Len(all) : m # n => all[m].name # all[n].name

\* C11: parseNamespacedTool returns null exactly when its input has no
\* occurrence of "__"; otherwise the input is backend, "__", tool, where no
\* occurrence of "__" starts before the end of the backend part (the split is
\* at the first occurrence; the tool part may contain "__").
C11_ParseSplitsAtFirst ==
  ns.pc = "parsed" =>
    LET s == ns.joined
        occ == {i \in 0..(Len(s) - 2) : SubSeq(s, i + 1, i + 2) = "__"}
    IN /\ (ns.parsed.ok = FALSE) <=> (occ = {})
       /\ occ = {} => ns.parsed = ParsedNull
       /\ occ # {} =>
            /\ s = ns.parsed.mcp \o "__" \o ns.parsed.tool
            /\ \A i \in occ : i >= Len(ns.parsed.mcp)

\* C11 witness: a name with two separators has been split at the first.
C11_Witness ==
  /\ ns.pc = "parsed"
  /\ ns.joined = "a__a__a"
  /\ ns.parsed = [ok |-> TRUE, mcp |-> "a", tool |-> "a__a"]

\* C12: a callTool whose name has no "__" ends at once with the invalid-format
\* error, and one whose backend segment is not a key of the registry ends at
\* once with the not-connected error; in that step no transport changes: no
\* pending entry, no id taken, nothing written.
C12_RejectedCallsTouchNothing ==
  [][\A k \in Calls :
       (task[k].pc = "idle" /\ task'[k].pc # "idle") =>
         LET name == task'[k].name
             hasSep == \E i \in 1..(Len(name) - 1) : SubSeq(name, i, i + 1) = "__"
             registeredNames == {clients[i].name : i \in 1..Len(clients)}
         IN /\ ~hasSep =>
                 /\ task'[k].pc = "done"
                 /\ task'[k].res = Outcome("throw", "Invalid tool name format")
                 /\ tr' = tr
            /\ (hasSep /\ parseNamespacedTool(name).mcp \notin registeredNames) =>
                 /\ task'[k].pc = "done"
                 /\ task'[k].res = Outcome("throw", "not connected")
                 /\ tr' = tr]_vars

\* C12 witness: with a backend registered, one call has failed with invalid
\* format and another with not connected.
C12_Witness ==
  /\ clients # <<>>
  /\ \E k1, k2 \in Calls :
       /\ task[k1].pc = "done" /\ task[k1].res = Outcome("throw", "Invalid tool name format")
       /\ task[k2].pc = "done" /\ task[k2].res = Outcome("throw", "not connected")

\* C13: on a transport that has not been started, or on which shutdown has
\* been called, every initialize, listTools or callTool ends in the step in
\* which it is invoked, with the error of request, and that transport gets no
\* new pending entry, takes no id and writes nothing.
C13_UnusableTransportFailsAtOnce ==
  [][\A t \in 1..nT :
       (tr[t].child = "none" \/ tr[t].killed) =>
         /\ tr'[t].pending \subseteq tr[t].pending
         /\ tr'[t].nextId = tr[t].nextId
         /\ tr'[t].out = tr[t].out
         /\ \A k \in DOMAIN task :
              (/\ task[k].kind = "raw"
               /\ task[k].pc \in {"idle", "done"}
               /\ task'[k] # task[k]
               /\ task'[k].t = t) =>
                /\ task'[k].pc = "done"
                /\ task'[k].op \in Methods
                /\ task'[k].res = Outcome("throw", "notstarted")]_vars

\* C13 witness: shutdown has been called with a request outstanding, and a
\* call has failed with the error of request.
C13_Witness ==
  \E t \in 1..nT :
    /\ tr[t].killed
    /\ tr[t].pending # {}
    /\ \E k \in DOMAIN task :
         /\ task[k].pc = "done" /\ task[k].t = t
         /\ task[k].res = Outcome("throw", "notstarted")

\* C14 (as claimed): once shutdown has been called the last line written is
\* the cancellation notification, and every request that was pending then is
\* eventually failed, by the exit handler or by its timer: it leaves the
\* table, is settled by a rejection, and no caller stays suspended on it.
C14_ShutdownFailsPending ==
  /\ [](\A t \in TIds :
          tr[t].killed =>
            /\ tr[t].out # <<>>
            /\ tr[t].out[Len(tr[t].out)] = OutLine(0, "notifications/cancelled"))
  /\ \A t \in TIds, id \in Ids :
       (tr[t].killed /\ id \in tr[t].pending) ~>
         (/\ id \notin tr[t].pending
          /\ settledBy[t][id] \in {<<"exit">>, <<"timeout">>}
          /\ Awaiting(task, t, id) = {})

\* C15: a caller whose request was completed by a message holds the message
\* whose id is the id of its own request, whatever the order of the answers;
\* and the requests written to the child carry the ids 1, 2, ... in the order
\* in which they were sent.
C15_CorrelatedById ==
  /\ \A k \in DOMAIN task :
       (task[k].pc = "ready" /\ task[k].resp.kind \in {"result", "error", "none"}) =>
         task[k].resp.id = task[k].id
  /\ \A t \in TIds :
       LET reqs == SelectSeq(tr[t].out, LAMBDA l : l.id # 0)
       IN \A i \in 1..Len(reqs) : reqs[i].id = i

\* C15 witness: two requests are outstanding on one transport and the second
\* has been answered while the first is still pending.
C15_Witness ==
  \E k1, k2 \in DOMAIN task :
    /\ task[k1].t = task[k2].t
    /\ task[k1].pc = "await" /\ task[k1].id = 1
    /\ task[k2].pc = "ready" /\ task[k2].id = 2
    /\ task[k2].resp.kind = "result" /\ task[k2].resp.id = 2

\* The Router.handleRequest invocations.
Routes == {k \in DOMAIN task : task[k].kind = "route"}

\* C16 (as claimed): a tools/call request makes the Router invoke
\* Manager.callTool exactly when params.name is there and is a string;
\* otherwise the Router answers at once with code -32602 and touches neither
\* a transport nor the usage log; and Manager.callTool gets that name and
\* params.arguments, or {} when arguments is absent.
C16_CallToolIffStringName ==
  [][\A k \in Routes :
       (task[k].pc = "idle" /\ task'[k].pc # "idle" /\ task'[k].req.method = "tools/call") =>
         LET req == task'[k].req
             present == req.params /\ req.name.type = "string"
         IN /\ (task'[k].mgr = "callTool") <=> present
            /\ ~present =>
                 /\ task'[k].pc = "done"
                 /\ task'[k].rsp.kind = "error" /\ task'[k].rsp.code = -32602
                 /\ tr' = tr /\ usage' = usage
            /\ present =>
                 /\ task'[k].name = req.name.val
                 /\ task'[k].args = IF req.args.type = "undefined" THEN "{}" ELSE req.args.val]_vars

\* C16 (amended): a tools/call request makes the Router invoke
\* Manager.callTool exactly when params.name is a non-empty string; otherwise
\* the Router answers at once with code -32602 and touches neither a
\* transport nor the usage log; and Manager.callTool gets that name and
\* params.arguments, or {} when arguments is absent or null.
C16_CallToolIffNonEmptyName ==
  [][\A k \in Routes :
       (task[k].pc = "idle" /\ task'[k].pc # "idle" /\ task'[k].req.method = "tools/call") =>
         LET req == task'[k].req
             present == req.params /\ req.name.type = "string" /\ req.name.val # ""
         IN /\ (task'[k].mgr = "callTool") <=> present
            /\ ~present =>
                 /\ task'[k].pc = "done"
                 /\ task'[k].rsp.kind = "error" /\ task'[k].rsp.code = -32602
                 /\ tr' = tr /\ usage' = usage
            /\ present =>
                 /\ task'[k].name = req.name.val
                 /\ task'[k].args = IF req.args.type \in {"undefined", "null"}
                                      THEN "{}" ELSE req.args.val]_vars

\* C16 witness: a tools/call whose name is the empty string has been answered
\* with the invalid-params code without the Manager being invoked.
C16_Witness ==
  \E k \in Routes :
    /\ task[k].pc = "done"
    /\ task[k].req.method = "tools/call" /\ task[k].req.name = JStr("")
    /\ task[k].rsp.code = -32602
    /\ task[k].mgr = "none"

\* C17 (as claimed): when the request of a delegated tools/call is completed
\* by a message with a result, the Router returns a success response with
\* that result as it is, with or without isError; and the Router returns an
\* error response for a delegated call only after a remote error response, a
\* timeout or a process exit.
C17_ResultForwardedUnchanged ==
  [][\A k \in Routes :
       (task[k].pc # "done" /\ task'[k].pc = "done" /\ task'[k].deleg) =>
         /\ (task[k].pc = "ready" /\ task[k].resp.kind = "result") =>
              task'[k].rsp = Response(task'[k].req.id, "result", 0, "", task[k].resp.pl, <<>>)
         /\ task'[k].rsp.kind # "result" =>
              (task[k].pc = "ready" /\ task[k].resp.kind \in {"error", "timeout", "exited"})]_vars

\* C18: in the step in which a tools/call ends with Manager.callTool having
\* thrown, handleRequest returns a response (it does not throw) with code
\* -32603 and the message of what was thrown; and if the call had been
\* delegated to a transport, the usage entry of the call has been handed to
\* the log by then, as the last entry, with success = false if it is the
\* delegated call that failed.
C18_FailureBecomesInternalError ==
  [][\A k \in Routes :
       (/\ task[k].pc # "done" /\ task'[k].pc = "done"
        /\ task'[k].mgr = "callTool" /\ task'[k].res.st = "throw") =>
         /\ task'[k].rsp =
              Response(task'[k].req.id, "error", -32603, task'[k].res.val, "undef", <<>>)
         /\ task'[k].deleg =>
              /\ Len(usage') = Len(usage) + 1
              /\ usage'[Len(usage')].call = k
              /\ DelegatedOutcome(k).st = "throw" => usage'[Len(usage')].success = FALSE]_vars

\* C18 witness: a delegated tools/call timed out and was answered with the
\* internal-error code, its usage entry being in the log.
C18_Witness ==
  \E k \in Routes :
    /\ task[k].pc = "done" /\ task[k].deleg
    /\ task[k].rsp.kind = "error" /\ task[k].rsp.code = -32603
    /\ task[k].rsp.message = "timeout"
    /\ EntriesOf(k) # {}

\* C19 (as claimed): whatever the registry holds, a handleRequest that has
\* ended has returned one response, which carries the id of its request, and
\* has returned none before; initialize, ping and notifications/initialized
\* get their fixed results and tools/list gets the list listAllTools gives at
\* that moment; and no handleRequest is left suspended in a bridge that has
\* stopped running.
C19_AlwaysOneResponse ==
  /\ [](\A k \in Routes :
          /\ task[k].pc # "done" => task[k].rsp = NoResponse
          /\ task[k].pc = "done" =>
               LET req == task[k].req
                   rsp == task[k].rsp
               IN /\ rsp.kind \in {"result", "error"}
                  /\ rsp.id = req.id
                  /\ req.method = "initialize" =>
                       rsp = Response(req.id, "result", 0, "", "mcp-central 0.1.0", <<>>)
                  /\ req.method \in {"ping", "notifications/initialized"} =>
                       rsp = Response(req.id, "result", 0, "", "{}", <<>>)
                  /\ req.method = "tools/list" => rsp.kind = "result"
          /\ crashed => task[k].pc \notin {"await", "ready"})
  /\ [][\A k \in Routes :
         (task[k].pc = "idle" /\ task'[k].pc = "done" /\ task'[k].req.method = "tools/list") =>
           task'[k].rsp.tools = listAllTools]_vars

\* C20: a request whose method is none of initialize,
\* notifications/initialized, tools/list, tools/call and ping is answered in
\* the step in which it arrives with code -32601 and a message that contains
\* the method string, without a Manager method being invoked and without any
\* change to a transport, the registry or the usage log.
C20_UnknownMethodNotFound ==
  [][\A k \in Routes :
       (/\ task[k].pc = "idle" /\ task'[k].pc # "idle"
        /\ task'[k].req.method \notin
             {"initialize", "notifications/initialized", "tools/list", "tools/call", "ping"}) =>
         LET m == task'[k].req.method
             msg == task'[k].rsp.message
         IN /\ task'[k].pc = "done"
            /\ task'[k].rsp.kind = "error" /\ task'[k].rsp.code = -32601
            /\ task'[k].rsp.id = task'[k].req.id
            /\ \E i \in 1..(Len(msg) - Len(m) + 1) : SubSeq(msg, i, i + Len(m) - 1) = m
            /\ task'[k].mgr = "none"
            /\ tr' = tr /\ clients' = clients /\ usage' = usage]_vars

\* C20 witness: foo/bar has been answered with the method-not-found code
\* while a backend is registered.
C20_Witness ==
  /\ clients # <<>>
  /\ \E k \in Routes :
       /\ task[k].pc = "done" /\ task[k].req.method = "foo/bar"
       /\ task[k].rsp.code = -32601
       /\ task[k].rsp.message = "Method not found: foo/bar"

\* C21 (as claimed): a connectAll that has been invoked returns, whatever the
\* backends do or fail to do; and when it has returned, a client has been
\* constructed for every enabled config, so every backend after a hanging or
\* failing one was attempted.
C21_ConnectAllTerminates ==
  /\ \A k \in ConnectAllTasks : (task[k].pc # "done") ~> (task[k].pc = "done")
  /\ [](\A k \in ConnectAllTasks : task[k].pc = "done" => nT = Len(Enabled(cfg)))

\* C22: disconnect(name) shuts the named transport down (the cancelled
\* notification is its last line, the process is killed and dropped) and
\* removes name from the registry, every other entry and every other
\* transport staying as it was; disconnect of an unknown name changes nothing;
\* shutdownAll shuts every registered transport down and empties the
\* registry; and callTool for a backend that is not in the registry fails with
\* not-connected without touching a transport.
C22_DisconnectRemoves ==
  [][/\ \A name \in DisconnectNames : Disconnect(name) =>
          LET t == ClientsGet(clients, name)
          IN IF t = 0
               THEN UNCHANGED vars
               ELSE /\ tr'[t].process = "null"
                    /\ tr[t].process # "null" =>
                         /\ tr'[t].killed
                         /\ tr'[t].out = Append(tr[t].out,
                                            OutLine(0, "notifications/cancelled"))
                    /\ ClientsGet(clients', name) = 0
                    /\ Len(clients') = Len(clients) - 1
                    /\ \A i \in 1..Len(clients) : clients[i].name # name =>
                         \E j \in 1..Len(clients') :
                            /\ clients'[j] = clients[i]
                            /\ j = Cardinality({h \in 1..i : clients[h].name # name})
                    /\ \A u \in TIds \ {t} : tr'[u] = tr[u]
     /\ ShutdownAll =>
          /\ clients' = <<>>
          /\ \A i \in 1..Len(clients) : tr'[clients[i].t].process = "null"
          /\ \A u \in TIds \ Registered : tr'[u] = tr[u]
     /\ \A k \in Calls :
          (/\ task[k].pc = "idle"
           /\ task'[k].pc # "idle"
           /\ parseNamespacedTool(task'[k].name).ok
           /\ ClientsGet(clients, parseNamespacedTool(task'[k].name).mcp) = 0) =>
             /\ task'[k].pc = "done"
             /\ task'[k].res = Outcome("throw", "not connected")
             /\ tr' = tr
    ]_vars

\* disconnect of "a" has happened while "a_" stays registered, and a callTool
\* for a tool of "a" has failed with not-connected.
C22_Witness ==
  /\ Len(clients) = 1
  /\ clients[1].name = "a_"
  /\ \E t \in 1..nT :
       /\ tr[t].name = "a"
       /\ tr[t].killed
       /\ tr[t].process = "null"
       /\ tr[t].tools = "cat"
  /\ \E k \in Calls : task[k].pc = "done" /\ task[k].res = Outcome("throw", "not connected")

\* The line handlers of the stdio frontend.
Lines == {k \in DOMAIN task : task[k].kind = "line"}

\* C23 (as claimed): a line handler writes nothing to stdout before it
\* finishes; a finished one has written nothing for a blank line and for a
\* request without an id, one parse-error response (-32700) for a line that
\* is not a JSON request, and one response carrying the request's id for a
\* request with an id; and every handler that has started on a request
\* finishes, so each request line with an id gets its response line.
C23_OneResponsePerRequest ==
  /\ [](\A k \in Lines :
         /\ task[k].pc # "end" => task[k].outl = <<>>
         /\ task[k].pc = "end" =>
              CASE task[k].line = "blank" -> task[k].outl = <<>>
                [] task[k].line \in {"garbage", "null"} ->
                     /\ Len(task[k].outl) = 1
                     /\ task[k].outl[1].kind = "error"
                     /\ task[k].outl[1].code = PARSE_ERROR
                [] OTHER ->
                     IF task[k].req.id = "undef"
                       THEN task[k].outl = <<>>
                       ELSE /\ Len(task[k].outl) = 1
                            /\ task[k].outl[1].id = task[k].req.id
                            /\ task[k].outl[1].kind \in {"result", "error"})
  /\ \A k \in LineTasks : (task[k].pc # "idle") ~> (task[k].pc = "end")

\* C24 (as claimed): the names of the servers of a Config are pairwise
\* different after any sequence of addServer, removeServer and updateServer;
\* addServer with a name that is present throws 'already exists' and
\* removeServer or updateServer with a name that is not present throws 'not
\* found', and a call that throws leaves the list as it was.
C24_ServerNamesUnique ==
  /\ [](\A i, j \in 1..Len(cfg) : cfg[i].name = cfg[j].name => i = j)
  /\ [][/\ task'[1].res.st = "throw" => cfg' = cfg
        /\ \A n \in ServerNames, e \in BOOLEAN :
             (addServer([name |-> n, enabled |-> e]) /\ FindServer(cfg, n) # 0)
               => task'[1].res = Outcome("throw", "already exists")
        /\ \A n \in ServerNames :
             (removeServer(n) /\ FindServer(cfg, n) = 0)
               => task'[1].res = Outcome("throw", "not found")
        /\ \A n \in ServerNames, u \in ServerUpdates :
             (updateServer(n, u) /\ FindServer(cfg, n) = 0)
               => task'[1].res = Outcome("throw", "not found")
       ]_vars

C26_IgnoredLinesChangeNothing ==
  [][\A t \in TIds : \A msg \in LinesFor(tr[t]) :
       (/\ OnLine(t, msg)
        /\ ~(msg.shape = "json" /\ msg.id # 0 /\ msg.id \in tr[t].pending))
         => UNCHANGED vars]_vars

\* A request was settled by its timer, its late response can still arrive on
\* the running child, and another request is pending.
C26_Witness ==
  \E t \in 1..nT, id \in Ids :
    /\ settledBy[t][id] = <<"timeout">>
    /\ tr[t].child = "run"
    /\ tr[t].process # "null"
    /\ LineMsg("json", id, "result", "obj") \in LinesFor(tr[t])
    /\ tr[t].pending # {}

\* The catalog stored by the i-th registered transport, and the number of
\* entries listAllTools has pushed before it gets to that transport.
CatalogAt(i) == Catalog(tr[clients[i].t].tools)

RECURSIVE CatalogOffset(_)
CatalogOffset(i) == IF i <= 1 THEN 0 ELSE CatalogOffset(i - 1) + Len(CatalogAt(i - 1))

\* What C27 says of the list listAllTools returns, a tool whose description
\* is in none counting as having no description.
ListedAsClaimed(out, none) ==
  /\ Len(out) = CatalogOffset(Len(clients) + 1)
  /\ \A i \in 1..Len(clients) : \A j \in 1..Len(CatalogAt(i)) :
       LET tool == CatalogAt(i)[j]
           e == out[CatalogOffset(i) + j]
       IN /\ e.name = clients[i].name \o "__" \o tool.name
          /\ e.inputSchema = tool.inputSchema
          /\ e.description = IF tool.description \notin none
                                THEN "[" \o clients[i].name \o "] " \o tool.description
                                ELSE "undef"

\* C27 (as claimed): listAllTools returns one entry per tool, backends in
\* registration order and tools in reported order, named {backend}__{tool}
\* with the same input schema, the description prefixed with `[{backend}] `
\* when the tool has a description member and absent when it has none; a
\* tools/list request returns that list and leaves every transport and the
\* registry as they were.
C27_ListAllToolsAsReported ==
  /\ [](ListedAsClaimed(listAllTools, {"undef"}))
  /\ [][\A k \in Routes :
         (task[k].pc = "idle" /\ task'[k].pc = "done" /\ task'[k].mgr = "listAllTools") =>
           /\ task'[k].rsp.tools = listAllTools
           /\ tr' = tr
           /\ clients' = clients]_vars

\* C27 (amended): the same, the description being prefixed when the tool has
\* a non-empty description and absent when it has none or an empty one.
C27_ListAllToolsNonEmptyDescription ==
  /\ [](ListedAsClaimed(listAllTools, {"undef", ""}))
  /\ [][\A k \in Routes :
         (task[k].pc = "idle" /\ task'[k].pc = "done" /\ task'[k].mgr = "listAllTools") =>
           /\ task'[k].rsp.tools = listAllTools
           /\ ListedAsClaimed(task'[k].rsp.tools, {"undef", ""})
           /\ tr' = tr
           /\ clients' = clients]_vars

\* A tools/list request was answered with the tools of two backends.
C27_Witness ==
  \E k \in Routes :
    /\ task[k].pc = "done"
    /\ task[k].mgr = "listAllTools"
    /\ Len(clients) = 2
    /\ Len(task[k].rsp.tools) = 6
    /\ task[k].rsp.tools[1].description = "[a] d"
    /\ task[k].rsp.tools[6].description = "undef"

\* C28: a response, a timeout or a process exit on one transport, and the
\* shutdown of one transport by disconnect, leave every other transport's
\* fields (pending table, id counter, catalog, process), the record of its
\* settlements and every call that is suspended on it as they were.
C28_TransportsIsolated ==
  [][\A t \in TIds :
       (\/ \E msg \in LinesFor(tr[t]) : OnLine(t, msg)
        \/ \E id \in Ids : OnTimeout(t, id)
        \/ OnExit(t)
        \/ \E name \in DisconnectNames : ClientsGet(clients, name) = t /\ Disconnect(name))
         => \A u \in TIds \ {t} :
              /\ tr'[u] = tr[u]
              /\ settledBy'[u] = settledBy[u]
              /\ \A k \in DOMAIN task : task[k].t = u => task'[k] = task[k]
    ]_vars

\* The child of the first transport has exited, which rejected a request
\* that was pending on it, while a request on the second transport is pending and
\* its child runs.
C28_Witness ==
  /\ nT = 2
  /\ tr[1].child = "dead"
  /\ \E i \in Ids : settledBy[1][i] = <<"exit">>
  /\ tr[2].child = "run"
  /\ tr[2].pending # {}
  /\ \E k \in DOMAIN task : task[k].pc = "await" /\ task[k].t = 2

\* C29: the requests a transport has written carry the ids 1, 2, 3, ... in
\* the order they were written, so ids increase strictly and none is used
\* twice; a notification is written without an id and the counter is one
\* more than the number of requests written, so notifications do not advance
\* it; and every key of the pending table is smaller than the counter.
C29_IdsIncreaseFromOne ==
  \A t \in TIds :
    LET reqs == SelectSeq(tr[t].out, LAMBDA l : l.id # 0)
    IN /\ \A i \in 1..Len(reqs) : reqs[i].id = i
       /\ tr[t].nextId = Len(reqs) + 1
       /\ \A i \in 1..Len(tr[t].out) :
            (tr[t].out[i].id # 0) <=> (tr[t].out[i].method \in Methods)
       /\ \A i \in tr[t].pending : i >= 1 /\ i < tr[t].nextId

\* A notification was written between two requests: the request after it
\* took the id that follows the one before it, and it is pending.
C29_Witness ==
  \E t \in 1..nT : \E i \in 1..(Len(tr[t].out) - 2) :
    /\ tr[t].out[i].id # 0
    /\ tr[t].out[i + 1].id = 0
    /\ tr[t].out[i + 2].id = tr[t].out[i].id + 1
    /\ tr[t].out[i + 2].id \in tr[t].pending

\* C30 (as claimed): when connect goes on after initialize has settled, the
\* transport has stored the server identity and written the
\* notifications/initialized notification (no id, pending table and counter
\* untouched) if the request was answered with a result, and is left as it
\* was (identity unset, nothing written) if it was not; tools/list is written
\* only in a step in which initialize succeeded with a server identity, so
\* every tools/list request follows the notification.
C30_InitializedOnlyOnSuccess ==
  /\ [][\A k \in Connects :
         (task[k].pc = "ready" /\ task[k].op = "initialize" /\ ConnectResume(k)) =>
           LET t == task[k].t
               resp == task[k].resp
               note == OutLine(0, "notifications/initialized")
               list == OutLine(tr[t].nextId, "tools/list")
           IN /\ resp.kind # "result" =>
                   /\ tr'[t] = tr[t]
                   /\ tr'[t].serverInfo = "null"
              /\ resp.kind = "result" =>
                   /\ tr'[t].serverInfo = resp.pl
                   /\ tr'[t].out \in {Append(tr[t].out, note),
                                      Append(Append(tr[t].out, note), list)}
                   /\ tr'[t].pending \subseteq tr[t].pending \cup {tr[t].nextId}
              /\ tr'[t].nextId # tr[t].nextId =>
                   /\ resp.kind = "result"
                   /\ HasServerInfo(resp.pl)
                   /\ tr'[t].out = Append(Append(tr[t].out, note), list)
       ]_vars
  /\ [](\A t \in TIds : \A i \in 1..Len(tr[t].out) :
         tr[t].out[i].method = "tools/list" =>
           /\ i > 1
           /\ tr[t].out[i - 1] = OutLine(0, "notifications/initialized")
           /\ tr[t].serverInfo = "init")

\* C31: when listTools goes on after its request has settled, a response
\* with a result makes it store the tools of the result as the catalog and
\* return them, nothing else of the transport changing; a remote error
\* response, a timeout or a process exit makes it throw and leaves the
\* transport, its catalog included, as it was.
C31_ListToolsReplacesOnSuccess ==
  [][\A k \in DOMAIN task :
       (/\ task[k].kind = "raw"
        /\ task[k].pc = "ready"
        /\ task[k].op = "tools/list"
        /\ RawResume(k)) =>
         LET t == task[k].t
             resp == task[k].resp
         IN /\ resp.kind = "result" =>
                 /\ task'[k].res.st = "ok"
                 /\ resp.pl = "cat" => task'[k].res.val = "cat"
                 /\ tr'[t] = [tr[t] EXCEPT !.tools = task'[k].res.val]
            /\ resp.kind \in {"error", "timeout", "exited"} =>
                 /\ task'[k].res.st = "throw"
                 /\ tr'[t] = tr[t]
    ]_vars

\* A catalog was stored by one listTools, and a later listTools failed on a
\* remote error response and left it in place.
C31_Witness ==
  \E k \in DOMAIN task :
    /\ task[k].kind = "raw"
    /\ task[k].pc = "done"
    /\ task[k].op = "tools/list"
    /\ task[k].res = Outcome("throw", "tools/list failed")
    /\ tr[task[k].t].tools = "cat"

\* C32: the transports one connectAll constructs are those of the enabled
\* configs in config order, and when the transport of a config has been
\* constructed every transport before it is registered or was reported as
\* failed: only the connect of the last one can still be in progress.
C32_ConnectsOneAtATime ==
  LET en == SelectSeq(cfg, LAMBDA sv : sv.enabled)
  IN /\ nT <= Len(en)
     /\ \A t \in 1..nT :
          /\ tr[t].name = en[t].name
          /\ t < nT =>
               /\ \/ t \in Registered
                  \/ \E j \in 1..Len(reported) : reported[j] = tr[t].name
               /\ \A k \in Connects : task[k].t # t
               /\ tr[t].pending = {} \/ t \in Registered

\* The connect of the first config hung and ended with its timeout, and only
\* then was the child of the second config spawned.
C32_Witness ==
  /\ nT = 2
  /\ settledBy[1][1] = <<"timeout">>
  /\ reported = <<"a">>
  /\ tr[2].child = "run"
  /\ \E k \in Connects : task[k].pc = "await" /\ task[k].t = 2

\* C33: the keys of a transport's pending table are exactly the ids of the
\* requests it has written whose promise no trigger has resolved or
\* rejected yet.
C33_PendingIsSentAndUnsettled ==
  \A t \in TIds : \A id \in Ids :
    id \in tr[t].pending <=>
      /\ \E i \in 1..Len(tr[t].out) : tr[t].out[i].id = id
      /\ settledBy[t][id] = <<>>

\* Of two requests written, one has been settled and has left the table and
\* the other is still in it.
C33_Witness ==
  \E t \in 1..nT : \E id, other \in Ids :
    /\ id \in tr[t].pending
    /\ other \notin tr[t].pending
    /\ settledBy[t][other] # <<>>

\* C34 (as claimed): for every registered backend and every tool of its
\* catalog, the name listAllTools returns for the tool is parsed by callTool
\* into that backend's name and the tool's own name, and the registry lookup
\* of the parsed backend gives the transport that reported the tool.
C34_ListedNamesRoutable ==
  \A i \in 1..Len(clients) : \A j \in 1..Len(CatalogAt(i)) :
    LET listed == listAllTools[CatalogOffset(i) + j].name
        parsed == parseNamespacedTool(listed)
    IN /\ parsed.ok
       /\ parsed.mcp = clients[i].name
       /\ parsed.tool = CatalogAt(i)[j].name
       /\ ClientsGet(clients, parsed.mcp) = clients[i].t

\* C35 (as claimed): every child process that runs belongs to a transport
\* that is registered or whose connect is still in progress, so the child of
\* a transport whose connect was reported as failed does not run.
C35_FailedConnectKillsChild ==
  \A t \in 1..nT :
    /\ tr[t].child = "run" =>
         \/ t \in Registered
         \/ \E k \in Connects : task[k].pc \in {"await", "ready"} /\ task[k].t = t
    /\ (\E j \in 1..Len(reported) : reported[j] = tr[t].name) =>
         tr[t].child # "run"

\* C36 (as claimed): a step that registers another transport under a name
\* that is registered finds the earlier transport's process shut down; and a
\* transport whose connect succeeded and whose child runs is the one
\* registered under its name, unless kill() was called on it.
C36_OneLiveTransportPerName ==
  /\ [][\A i \in 1..Len(clients) :
         LET was == clients[i].t
             now == ClientsGet(clients', clients[i].name)
         IN (now # 0 /\ now # was) => (tr'[was].killed \/ tr'[was].child # "run")
       ]_vars
  /\ [](\A t \in 1..nT :
         (tr[t].child = "run" /\ tr[t].tools = "cat" /\ ~tr[t].killed) =>
           ClientsGet(clients, tr[t].name) = t)

\* C37 (as claimed): a line settles a pending request only when it is a
\* response carrying the request's id, that is a message with a result or
\* an error; a message with neither (a request or notification of the
\* backend that carries a pending id, or a bare id) leaves the request
\* pending and its caller suspended.
C37_OnlyResponsesSettle ==
  [][\A t \in TIds : \A id \in Ids :
       (/\ id \in tr[t].pending
        /\ id \notin tr'[t].pending
        /\ settledBy'[t][id] = <<"response">>) =>
         \A k \in DOMAIN task :
           (task[k].pc = "await" /\ task[k].t = t /\ task[k].id = id) =>
             /\ task'[k].pc = "ready"
             /\ task'[k].resp.id = id
             /\ task'[k].resp.kind \in {"result", "error"}
    ]_vars

\* C38 (as claimed): with several callTool invocations in flight, each one
\* that delegated to a backend ends with the outcome of its own request (the
\* response it was resumed with carries its own id) and adds exactly one
\* usage record, which carries its own backend, tool, arguments and success
\* flag; the records are as many as the delegated calls that ended.
C38_ConcurrentCallsKeepTheirOwn ==
  /\ [][\A k \in Calls :
         (task[k].pc # "done" /\ task'[k].pc = "done" /\ task'[k].deleg) =>
           LET out == ManagerOutcome(DelegatedOutcome(k))
               parsed == parseNamespacedTool(task'[k].name)
               e == usage'[Len(usage')]
           IN /\ (task[k].pc = "ready" /\ ~IsRejected(task[k].resp)) =>
                   task[k].resp.id = task[k].id
              /\ task'[k].res = out
              /\ Len(usage') = Len(usage) + 1
              /\ SubSeq(usage', 1, Len(usage)) = usage
              /\ e.call = k
              /\ e.mcp = parsed.mcp /\ e.tool = parsed.tool /\ e.args = task'[k].args
              /\ e.success = (out.st = "ok" /\ ~IsErrorOf(out.val))
       ]_vars
  /\ [](/\ \A k \in Calls :
            Cardinality(EntriesOf(k)) =
              IF task[k].pc = "done" /\ task[k].deleg THEN 1 ELSE 0
        /\ Len(usage) = Cardinality({k \in Calls : task[k].pc = "done" /\ task[k].deleg}))

=============================================================================
